---- MODULE Spec2Model ----
(***************************************************************************)
(* A model of OrderedTask (src/src/Engine/Task/Ordered/OrderedTask.cpp):   *)
(* the task-point vector and the optional-start vector with their          *)
(* neighbour links, the active index, the cached start/finish pointers,    *)
(* the transition engine and the nominal-distance scan.                    *)
(*                                                                         *)
(* A point object is identified by an id (its address).  0 is nullptr and  *)
(* Dangling is a pointer whose pointee has been destroyed.  Vector         *)
(* positions are 0-based as in the source; At(s, i) reads s[i].            *)
(***************************************************************************)
EXTENDS Integers, Sequences, FiniteSets, TLC

\* ---------------------------------------------------------------- bounds
MaxPoints == 3
MaxOptional == 1
NumWaypoints == 2
MaxTime == 1
MaxDist == 5
MaxEdited == 2
MaxZones == 2
\* optional starts in the specification that selects among them
MaxSelectable == 3
\* skipped scans counted before a full one
MaxDrift == 2

\* ------------------------------------------------------------- constants
Null == 0
Dangling == -1
Undefined == -1

Kinds == {"START", "INTERMEDIATE", "FINISH"}
Waypoints == 1..NumWaypoints
Times == 0..MaxTime

\* A point passed to Append/Insert/Replace: its type and its waypoint with
\* the observation zone around it.
PointTemplates == [kind : Kinds, wp : Waypoints]
StartTemplates == [kind : {"START"}, wp : Waypoints]

\* -------------------------------------------------------------- helpers
At(s, i) == s[i + 1]

MaxOf(S) == CHOOSE x \in S : \A y \in S : y <= x

MinOf(S) == CHOOSE x \in S : \A y \in S : x <= y

TaskSize(t) == Len(t.task_points)

AllPoints(t) == t.task_points \o t.optional_start_points

LiveIds(t) == {AllPoints(t)[i].id : i \in DOMAIN AllPoints(t)}

\* the address of a newly allocated point: none of the live ones
FreshId(t) == 1 + MaxOf(LiveIds(t) \cup {0})

\* OrderedTaskPoint::Clone: a new object of the same type and zone, with
\* fresh sample state and no neighbours
Clone(tp, wp, t) ==
  [id |-> FreshId(t), kind |-> tp.kind, wp |-> wp,
   has_entered |-> FALSE, has_exited |-> FALSE, exit_time |-> Undefined,
   prev |-> Null, next |-> Null]

\* OrderedTaskPoint::Equals: same type, same waypoint and zone
Equals(p, q) == p.kind = q.kind /\ p.wp = q.wp

\* StartPoint overrides IsPredecessorAllowed to false
IsPredecessorAllowed(p) == p.kind # "START"

\* FinishPoint overrides IsSuccessorAllowed to false
IsSuccessorAllowed(p) == p.kind # "FINISH"

\* the destruction of the object at address id: every pointer still held
\* to it dangles
Destroy(t, id) ==
  LET fix(p) == IF p = id THEN Dangling ELSE p
      pt(q) == [q EXCEPT !.prev = fix(q.prev), !.next = fix(q.next)]
  IN [t EXCEPT
        !.task_points = [i \in DOMAIN t.task_points |-> pt(t.task_points[i])],
        !.optional_start_points =
           [i \in DOMAIN t.optional_start_points |-> pt(t.optional_start_points[i])],
        !.taskpoint_start = fix(t.taskpoint_start),
        !.taskpoint_finish = fix(t.taskpoint_finish)]

\* Addresses carry no meaning beyond identity: after an operation that
\* allocates or destroys points the live objects are renamed to their slot
\* order (task points first, then optional starts).
Canon(t) ==
  LET all == AllPoints(t)
      ren(p) == IF p = Null \/ p = Dangling THEN p
                ELSE IF \E i \in DOMAIN all : all[i].id = p
                     THEN CHOOSE i \in DOMAIN all : all[i].id = p
                     ELSE Dangling
      pt(q) == [q EXCEPT !.id = ren(q.id), !.prev = ren(q.prev), !.next = ren(q.next)]
  IN [t EXCEPT
        !.task_points = [i \in DOMAIN t.task_points |-> pt(t.task_points[i])],
        !.optional_start_points =
           [i \in DOMAIN t.optional_start_points |-> pt(t.optional_start_points[i])],
        !.taskpoint_start = ren(t.taskpoint_start),
        !.taskpoint_finish = ren(t.taskpoint_finish)]

Res(t, ret) == [t |-> t, ret |-> ret]

\* ------------------------------------------------------ neighbour links
SetNeighbours(t, position) ==
  LET n == TaskSize(t) IN
  IF position >= n THEN t
  ELSE
    LET prev == IF position > 0 THEN At(t.task_points, position - 1).id ELSE Null
        next == IF position + 1 < n THEN At(t.task_points, position + 1).id ELSE Null
    IN [t EXCEPT
          !.task_points[position + 1].prev = prev,
          !.task_points[position + 1].next = next,
          !.optional_start_points =
             IF position = 0
             THEN [j \in DOMAIN t.optional_start_points |->
                     [t.optional_start_points[j] EXCEPT !.prev = prev, !.next = next]]
             ELSE t.optional_start_points]

\* ----------------------------------------------------- start and finish
HasStart(t) == t.taskpoint_start # Null

HasFinish(t) == t.taskpoint_finish # Null

ScanStartFinish(t) ==
  IF TaskSize(t) = 0
  THEN [t EXCEPT !.taskpoint_start = Null, !.taskpoint_finish = Null]
  ELSE [t EXCEPT
          !.taskpoint_start =
             IF At(t.task_points, 0).kind = "START"
             THEN At(t.task_points, 0).id ELSE Null,
          !.taskpoint_finish =
             IF TaskSize(t) > 1 /\ At(t.task_points, TaskSize(t) - 1).kind = "FINISH"
             THEN At(t.task_points, TaskSize(t) - 1).id ELSE Null]

UpdateStatsGeometry(t) == ScanStartFinish(t)

UpdateGeometry(t) ==
  LET t1 == UpdateStatsGeometry(t) IN
  IF TaskSize(t1) = 0 THEN t1
  ELSE [t1 EXCEPT !.force_full_update = TRUE]

\* --------------------------------------------------- structural mutation
ErasePoint(t, index) ==
  LET gone == At(t.task_points, index).id
      t1 == [t EXCEPT !.task_points =
               SubSeq(t.task_points, 1, index) \o
               SubSeq(t.task_points, index + 2, Len(t.task_points))]
  IN Destroy(t1, gone)

EraseOptionalStartPoint(t, index) ==
  LET gone == At(t.optional_start_points, index).id
      t1 == [t EXCEPT !.optional_start_points =
               SubSeq(t.optional_start_points, 1, index) \o
               SubSeq(t.optional_start_points, index + 2, Len(t.optional_start_points))]
  IN Destroy(t1, gone)

\* Remove that steps the active index back whenever it can
RemoveSteppingBack(t, position) ==
  IF position >= TaskSize(t) THEN Res(t, FALSE)
  ELSE
    LET a == t.active_task_point
        t1 == IF a > position \/ a > 0
              THEN [t EXCEPT !.active_task_point = a - 1] ELSE t
        t2 == ErasePoint(t1, position)
        t3 == IF position < TaskSize(t2) THEN SetNeighbours(t2, position) ELSE t2
        t4 == IF position # 0 THEN SetNeighbours(t3, position - 1) ELSE t3
    IN Res(t4, TRUE)

\* Remove that rewires only the slot that moved into the gap
RemoveRewiringOneSide(t, position) ==
  IF position >= TaskSize(t) THEN Res(t, FALSE)
  ELSE
    LET a == t.active_task_point
        t1 == IF a > position \/ (a > 0 /\ a = TaskSize(t) - 1)
              THEN [t EXCEPT !.active_task_point = a - 1] ELSE t
        t2 == ErasePoint(t1, position)
        t3 == IF position < TaskSize(t2) THEN SetNeighbours(t2, position) ELSE t2
    IN Res(t3, TRUE)

\* Remove without the adjustment of the active index
RemoveKeepingActive(t, position) ==
  IF position >= TaskSize(t) THEN Res(t, FALSE)
  ELSE
    LET t2 == ErasePoint(t, position)
        t3 == IF position < TaskSize(t2) THEN SetNeighbours(t2, position) ELSE t2
        t4 == IF position # 0 THEN SetNeighbours(t3, position - 1) ELSE t3
    IN Res(t4, TRUE)

Remove(t, position) ==
  IF position >= TaskSize(t) THEN Res(t, FALSE)
  ELSE
    LET a == t.active_task_point
        t1 == IF a > position \/ (a > 0 /\ a = TaskSize(t) - 1)
              THEN [t EXCEPT !.active_task_point = a - 1] ELSE t
        t2 == ErasePoint(t1, position)
        t3 == IF position < TaskSize(t2) THEN SetNeighbours(t2, position) ELSE t2
        t4 == IF position # 0 THEN SetNeighbours(t3, position - 1) ELSE t3
    IN Res(t4, TRUE)

RemoveOptionalStart(t, position) ==
  IF position >= Len(t.optional_start_points) THEN Res(t, FALSE)
  ELSE
    LET t1 == EraseOptionalStartPoint(t, position)
        t2 == IF TaskSize(t1) > 1 THEN SetNeighbours(t1, 0) ELSE t1
    IN Res(t2, TRUE)

TaskAppend(t, new_tp) ==
  IF TaskSize(t) # 0 /\
     (~IsPredecessorAllowed(new_tp) \/
      ~IsSuccessorAllowed(At(t.task_points, TaskSize(t) - 1)))
  THEN Res(t, FALSE)
  ELSE
    LET i == TaskSize(t)
        t1 == [t EXCEPT !.task_points = Append(@, Clone(new_tp, new_tp.wp, t))]
        t2 == IF i > 0 THEN SetNeighbours(t1, i - 1) ELSE t1
    IN Res(SetNeighbours(t2, i), TRUE)

AppendOptionalStart(t, new_tp) ==
  LET t1 == [t EXCEPT !.optional_start_points = Append(@, Clone(new_tp, new_tp.wp, t))]
      t2 == IF TaskSize(t1) > 1 THEN SetNeighbours(t1, 0) ELSE t1
  IN Res(t2, TRUE)

\* Insert without the test that the new point allows a predecessor
InsertAnyKind(t, new_tp, position) ==
  IF position >= TaskSize(t) THEN TaskAppend(t, new_tp)
  ELSE IF ~IsSuccessorAllowed(new_tp) \/
          (position > 0 /\ ~IsSuccessorAllowed(At(t.task_points, position - 1))) \/
          ~IsPredecessorAllowed(At(t.task_points, position))
  THEN Res(t, FALSE)
  ELSE
    LET t1 == IF t.active_task_point >= position
              THEN [t EXCEPT !.active_task_point = @ + 1] ELSE t
        t2 == [t1 EXCEPT !.task_points =
                 SubSeq(@, 1, position) \o <<Clone(new_tp, new_tp.wp, t1)>> \o
                 SubSeq(@, position + 1, Len(@))]
        t3 == IF position # 0 THEN SetNeighbours(t2, position - 1) ELSE t2
        t4 == SetNeighbours(t3, position)
    IN Res(SetNeighbours(t4, position + 1), TRUE)

\* Insert without SetNeighbours(position + 1)
InsertStaleNeighbour(t, new_tp, position) ==
  IF position >= TaskSize(t) THEN TaskAppend(t, new_tp)
  ELSE IF (position > 0 /\ ~IsPredecessorAllowed(new_tp)) \/
          ~IsSuccessorAllowed(new_tp) \/
          (position > 0 /\ ~IsSuccessorAllowed(At(t.task_points, position - 1))) \/
          ~IsPredecessorAllowed(At(t.task_points, position))
  THEN Res(t, FALSE)
  ELSE
    LET t1 == IF t.active_task_point >= position
              THEN [t EXCEPT !.active_task_point = @ + 1] ELSE t
        t2 == [t1 EXCEPT !.task_points =
                 SubSeq(@, 1, position) \o <<Clone(new_tp, new_tp.wp, t1)>> \o
                 SubSeq(@, position + 1, Len(@))]
        t3 == IF position # 0 THEN SetNeighbours(t2, position - 1) ELSE t2
    IN Res(SetNeighbours(t3, position), TRUE)

Insert(t, new_tp, position) ==
  IF position >= TaskSize(t) THEN TaskAppend(t, new_tp)
  ELSE IF (position > 0 /\ ~IsPredecessorAllowed(new_tp)) \/
          ~IsSuccessorAllowed(new_tp) \/
          (position > 0 /\ ~IsSuccessorAllowed(At(t.task_points, position - 1))) \/
          ~IsPredecessorAllowed(At(t.task_points, position))
  THEN Res(t, FALSE)
  ELSE
    LET t1 == IF t.active_task_point >= position
              THEN [t EXCEPT !.active_task_point = @ + 1] ELSE t
        t2 == [t1 EXCEPT !.task_points =
                 SubSeq(@, 1, position) \o <<Clone(new_tp, new_tp.wp, t1)>> \o
                 SubSeq(@, position + 1, Len(@))]
        t3 == IF position # 0 THEN SetNeighbours(t2, position - 1) ELSE t2
        t4 == SetNeighbours(t3, position)
    IN Res(SetNeighbours(t4, position + 1), TRUE)

\* Replace that stores the new point before it tests whether it fits
ReplaceBeforeTesting(t, new_tp, position) ==
  IF position >= TaskSize(t) THEN Res(t, FALSE)
  ELSE IF Equals(At(t.task_points, position), new_tp) THEN Res(t, TRUE)
  ELSE
    LET old == At(t.task_points, position).id
        t1 == [t EXCEPT !.task_points[position + 1] = Clone(new_tp, new_tp.wp, t)]
        t2 == Destroy(t1, old)
        t3 == IF position # 0 THEN SetNeighbours(t2, position - 1) ELSE t2
        t4 == SetNeighbours(t3, position)
        t5 == IF position + 1 < TaskSize(t4) THEN SetNeighbours(t4, position + 1) ELSE t4
    IN Res(t5, ~((position > 0 /\ ~IsPredecessorAllowed(new_tp)) \/
                 (position + 1 < TaskSize(t) /\ ~IsSuccessorAllowed(new_tp))))

Replace(t, new_tp, position) ==
  IF position >= TaskSize(t) THEN Res(t, FALSE)
  ELSE IF Equals(At(t.task_points, position), new_tp) THEN Res(t, TRUE)
  ELSE IF (position > 0 /\ ~IsPredecessorAllowed(new_tp)) \/
          (position + 1 < TaskSize(t) /\ ~IsSuccessorAllowed(new_tp))
  THEN Res(t, FALSE)
  ELSE
    LET old == At(t.task_points, position).id
        t1 == [t EXCEPT !.task_points[position + 1] = Clone(new_tp, new_tp.wp, t)]
        t2 == Destroy(t1, old)
        t3 == IF position # 0 THEN SetNeighbours(t2, position - 1) ELSE t2
        t4 == SetNeighbours(t3, position)
        t5 == IF position + 1 < TaskSize(t4) THEN SetNeighbours(t4, position + 1) ELSE t4
    IN Res(t5, TRUE)

ReplaceOptionalStartAppending(t, new_tp, position) ==
  IF position >= Len(t.optional_start_points) THEN AppendOptionalStart(t, new_tp)
  ELSE IF Equals(At(t.optional_start_points, position), new_tp) THEN Res(t, TRUE)
  ELSE
    LET old == At(t.optional_start_points, position).id
        t1 == [t EXCEPT !.optional_start_points[position + 1] =
                 Clone(new_tp, new_tp.wp, t)]
        t2 == Destroy(t1, old)
    IN Res(SetNeighbours(t2, 0), TRUE)

ReplaceOptionalStart(t, new_tp, position) ==
  IF position >= Len(t.optional_start_points) THEN Res(t, FALSE)
  ELSE IF Equals(At(t.optional_start_points, position), new_tp) THEN Res(t, TRUE)
  ELSE
    LET old == At(t.optional_start_points, position).id
        t1 == [t EXCEPT !.optional_start_points[position + 1] =
                 Clone(new_tp, new_tp.wp, t)]
        t2 == Destroy(t1, old)
    IN Res(SetNeighbours(t2, 0), TRUE)

RelocateOptionalStart(t, position, waypoint) ==
  IF position >= Len(t.optional_start_points) THEN Res(t, FALSE)
  ELSE
    LET old == At(t.optional_start_points, position)
        t1 == [t EXCEPT !.optional_start_points[position + 1] =
                 Clone(old, waypoint, t)]
    IN Res(Destroy(t1, old.id), TRUE)

Relocate(t, position, waypoint) ==
  IF position >= TaskSize(t) THEN Res(t, FALSE)
  ELSE
    LET old == At(t.task_points, position)
        new_tp == [kind |-> old.kind, wp |-> waypoint]
    IN Replace(t, new_tp, position)

SetActiveTaskPoint(t, index) ==
  IF index >= TaskSize(t) \/ index = t.active_task_point THEN t
  ELSE [t EXCEPT !.task_advance.armed = FALSE,
                 !.active_task_point = index,
                 !.force_full_update = TRUE]

\* SelectOptionalStart that also restarts the task at its first point
SelectOptionalStartRestarting(t, pos) ==
  LET old_start == At(t.task_points, 0)
      chosen == At(t.optional_start_points, pos)
      pushed == Append(t.optional_start_points, old_start)
      t1 == [t EXCEPT
               !.task_points[1] = chosen,
               !.optional_start_points =
                  SubSeq(pushed, 1, pos) \o SubSeq(pushed, pos + 2, Len(pushed))]
      t2 == SetNeighbours(t1, 0)
      t3 == IF TaskSize(t2) > 1 THEN SetNeighbours(t2, 1) ELSE t2
  IN UpdateGeometry(SetActiveTaskPoint(t3, 0))

SelectOptionalStartSwapping(t, pos) ==
  LET old_start == At(t.task_points, 0)
      chosen == At(t.optional_start_points, pos)
      t1 == [t EXCEPT
               !.task_points[1] = chosen,
               !.optional_start_points[pos + 1] = old_start]
      t2 == SetNeighbours(t1, 0)
      t3 == IF TaskSize(t2) > 1 THEN SetNeighbours(t2, 1) ELSE t2
  IN UpdateGeometry(t3)

SelectOptionalStart(t, pos) ==
  LET old_start == At(t.task_points, 0)
      chosen == At(t.optional_start_points, pos)
      pushed == Append(t.optional_start_points, old_start)
      t1 == [t EXCEPT
               !.task_points[1] = chosen,
               !.optional_start_points =
                  SubSeq(pushed, 1, pos) \o SubSeq(pushed, pos + 2, Len(pushed))]
      t2 == SetNeighbours(t1, 0)
      t3 == IF TaskSize(t2) > 1 THEN SetNeighbours(t2, 1) ELSE t2
  IN UpdateGeometry(t3)

RemoveAllPoints(t) ==
  [t EXCEPT !.task_points = <<>>,
            !.optional_start_points = <<>>,
            !.active_task_point = 0,
            !.taskpoint_start = Null,
            !.taskpoint_finish = Null,
            !.force_full_update = TRUE]

\* ------------------------------------------------------------ transitions
\* A fix: the zones (by waypoint) that contain the aircraft, the time and
\* the flying flag.
Contains(point, state) == point.wp \in state.inside

\* ObservationZone::TransitionEnter
CheckEnterTransition(point, state, state_last) ==
  ~Contains(point, state_last) /\ Contains(point, state)

\* ObservationZone::TransitionExit, with the start point's PEV rule
CheckExitTransition(point, state, state_last, pev_ready, score_pev) ==
  /\ Contains(point, state_last)
  /\ ~Contains(point, state)
  /\ (point.kind = "START" => (pev_ready \/ ~score_pev))

\* OrderedTaskPoint::Reset: the point's sample state
ResetPoint(p) ==
  [p EXCEPT !.has_entered = FALSE, !.has_exited = FALSE, !.exit_time = Undefined]

TransitionEnter(point, state, state_last) ==
  IF CheckEnterTransition(point, state, state_last)
  THEN [point EXCEPT !.has_entered = TRUE]
  ELSE point

TransitionExit(point, state, state_last, pev_ready, score_pev) ==
  IF CheckExitTransition(point, state, state_last, pev_ready, score_pev)
  THEN [point EXCEPT !.has_exited = TRUE, !.exit_time = state.time]
  ELSE point

\* the first undefined behaviour met wins
FirstUB(a, b) == IF a # "none" THEN a ELSE b

\* UpdateStartTransition without the HasExited() test
UpdateStartTransitionAlways(t, state, start) ==
  IF t.active_task_point = 0
  THEN [point |-> start,
        ub |-> IF t.taskpoint_start = Dangling THEN "dangling"
               ELSE IF TaskSize(t) < 2 THEN "oob"
               ELSE "none"]
  ELSE IF ~Contains(start, state)
  THEN [point |-> ResetPoint(start), ub |-> "none"]
  ELSE [point |-> start, ub |-> "none"]

UpdateStartTransition(t, state, start) ==
  IF t.active_task_point = 0
  THEN [point |-> start,
        ub |-> IF t.taskpoint_start = Dangling THEN "dangling"
               ELSE IF TaskSize(t) < 2 THEN "oob"
               ELSE "none"]
  ELSE IF ~start.has_exited /\ ~Contains(start, state)
  THEN [point |-> ResetPoint(start), ub |-> "none"]
  ELSE [point |-> start, ub |-> "none"]

\* a TaskEvents callback: its name, the point passed and (ActiveAdvanced)
\* the index passed
Event(type, id, index) == [type |-> type, point |-> id, index |-> index]

\* The bounding-box test only saves work: a fix inside the zone is nearby.
CheckTransitionPoint(t, point, state, state_last, enter, exit, pev_ready, is_start) ==
  LET score_pev == t.ordered_settings.score_pev
      x_enter == CheckEnterTransition(point, state, state_last)
      p1 == TransitionEnter(point, state, state_last)
      x_exit == CheckExitTransition(p1, state, state_last, pev_ready, score_pev)
      p2 == TransitionExit(p1, state, state_last, pev_ready, score_pev)
      u == IF is_start THEN UpdateStartTransition(t, state, p2)
           ELSE [point |-> p2, ub |-> "none"]
  IN [point |-> u.point,
      enter |-> enter \/ x_enter,
      exit |-> exit \/ x_exit,
      events |-> (IF x_enter THEN <<Event("EnterTransition", point.id, Undefined)>> ELSE <<>>) \o
                 (IF x_exit THEN <<Event("ExitTransition", point.id, Undefined)>> ELSE <<>>),
      ub |-> u.ub]

RECURSIVE OptionalStartLoop(_, _, _, _)
OptionalStartLoop(acc, j, state, state_last) ==
  IF j >= Len(acc.t.optional_start_points) THEN acc
  ELSE
    LET r == CheckTransitionPoint(acc.t, At(acc.t.optional_start_points, j),
                                  state, state_last, acc.enter, acc.exit,
                                  acc.pev_ready, TRUE)
        t1 == [acc.t EXCEPT !.optional_start_points[j + 1] = r.point]
        acc1 == [acc EXCEPT !.t = t1, !.enter = r.enter, !.exit = r.exit,
                            !.events = @ \o r.events, !.ub = FirstUB(@, r.ub)]
    IN IF r.enter \/ r.exit
       THEN [acc1 EXCEPT !.t = SelectOptionalStart(t1, j)]
       ELSE OptionalStartLoop(acc1, j + 1, state, state_last)

CheckTransitionOptionalStart(t, state, state_last, pev_ready) ==
  OptionalStartLoop([t |-> t, enter |-> FALSE, exit |-> FALSE,
                     pev_ready |-> pev_ready, events |-> <<>>, ub |-> "none"],
                    0, state, state_last)

\* ---------------------------------------------------------- task advance
NeedToArm(adv) == adv.request_armed

\* TaskAdvance::CheckReadyToAdvance: a start is left, any other point is
\* entered; in ARM mode only when armed.
StateReady(point, x_enter, x_exit) ==
  IF point.kind = "START" THEN x_exit ELSE x_enter

CheckReadyToAdvance(adv, point, x_enter, x_exit) ==
  LET ready == StateReady(point, x_enter, x_exit) /\ (adv.mode = "AUTO" \/ adv.armed)
      req == IF adv.armed \/ adv.mode = "AUTO" THEN FALSE
             ELSE IF StateReady(point, x_enter, x_exit) THEN TRUE
             ELSE adv.request_armed
  IN [adv |-> [adv EXCEPT !.request_armed = req], ready |-> ready]

ResetAdvance(adv) == [adv EXCEPT !.armed = FALSE, !.request_armed = FALSE]

\* ------------------------------------------------------ CheckTransitions
\* the object a live pointer refers to
Deref(t, ptr) ==
  LET all == AllPoints(t) IN all[CHOOSE i \in DOMAIN all : all[i].id = ptr]

\* What a read through a dangling pointer may return.
Garbage == [has_exited : BOOLEAN, has_entered : BOOLEAN,
            exit_time : Times \cup {Undefined}]

NoGarbage == [has_exited |-> FALSE, has_entered |-> FALSE, exit_time |-> Undefined]

\* the object read through taskpoint_start / taskpoint_finish
ReadPoint(t, ptr, g) == IF ptr = Dangling THEN g ELSE Deref(t, ptr)

TaskStarted(t, soft, g) ==
  IF t.taskpoint_start # Null
  THEN ReadPoint(t, t.taskpoint_start, g).has_exited \/
       (soft /\ t.active_task_point > 0)
  ELSE FALSE

\* StartStats::SetStarted (time, altitude and ground speed are copied from
\* the same aircraft state; the model keeps the time)
SetStarted(start, aircraft_time, pev) ==
  [start EXCEPT !.advanced_by_pev = pev, !.time = aircraft_time]

\* StartStats::Reset
StartStatsReset(start) ==
  [start EXCEPT !.time = Undefined, !.advanced_by_pev = FALSE]

HasStarted(start) == start.time # Undefined

\* The first half of the loop body: for slot 0 the optional starts are
\* checked first and pass their transition flags on.
CheckOptionalStarts(t, i, state, state_last) ==
  IF i = 0
  THEN CheckTransitionOptionalStart(t, state, state_last,
                                    t.stats.pev_based_advance_ready)
  ELSE [t |-> t, enter |-> FALSE, exit |-> FALSE, events |-> <<>>, ub |-> "none"]

\* CheckTransitionPoint(*task_points[i], ...) of the loop body; o is what
\* the check of the optional starts left
CheckSlot(o, i, state, state_last) ==
  LET r == CheckTransitionPoint(o.t, At(o.t.task_points, i), state, state_last,
                                o.enter, o.exit,
                                o.t.stats.pev_based_advance_ready, i = 0)
  IN [t |-> [o.t EXCEPT !.task_points[i + 1] = r.point],
      enter |-> r.enter, exit |-> r.exit,
      events |-> o.events \o r.events,
      ub |-> FirstUB(o.ub, r.ub)]

\* the advance that leaves the switch armed at the last point
AdvanceActiveKeepingArmed(acc, s, c, i, n_task) ==
  IF c.ready
  THEN IF i + 1 < n_task
       THEN [acc EXCEPT
               !.t = SetActiveTaskPoint(
                       [s.t EXCEPT !.task_advance = [c.adv EXCEPT !.armed = FALSE]],
                       i + 1),
               !.full_update = TRUE,
               !.events = @ \o s.events \o
                  <<Event("ActiveAdvanced", At(s.t.task_points, i + 1).id, i + 1)>>,
               !.ub = FirstUB(@, s.ub),
               !.i = i + 1]
       ELSE [acc EXCEPT
               !.t = [s.t EXCEPT !.task_advance = c.adv],
               !.events = @ \o s.events,
               !.ub = FirstUB(@, s.ub),
               !.i = i]
  ELSE IF ~NeedToArm(s.t.task_advance) /\ NeedToArm(c.adv)
  THEN [acc EXCEPT
          !.t = [s.t EXCEPT !.task_advance = c.adv],
          !.events = @ \o s.events \o
             <<Event("RequestArm", At(s.t.task_points, i).id, Undefined)>>,
          !.ub = FirstUB(@, s.ub),
          !.i = i]
  ELSE [acc EXCEPT
          !.t = [s.t EXCEPT !.task_advance = c.adv],
          !.events = @ \o s.events,
          !.ub = FirstUB(@, s.ub),
          !.i = i]

\* the advance that reports ActiveAdvanced ahead of the transitions
AdvanceActiveAnnouncingFirst(acc, s, c, i, n_task) ==
  IF c.ready
  THEN IF i + 1 < n_task
       THEN [acc EXCEPT
               !.t = SetActiveTaskPoint(
                       [s.t EXCEPT !.task_advance = [c.adv EXCEPT !.armed = FALSE]],
                       i + 1),
               !.full_update = TRUE,
               !.events = @ \o
                  <<Event("ActiveAdvanced", At(s.t.task_points, i + 1).id, i + 1)>> \o
                  s.events,
               !.ub = FirstUB(@, s.ub),
               !.i = i + 1]
       ELSE [acc EXCEPT
               !.t = [s.t EXCEPT !.task_advance = [c.adv EXCEPT !.armed = FALSE]],
               !.events = @ \o s.events,
               !.ub = FirstUB(@, s.ub),
               !.i = i]
  ELSE IF ~NeedToArm(s.t.task_advance) /\ NeedToArm(c.adv)
  THEN [acc EXCEPT
          !.t = [s.t EXCEPT !.task_advance = c.adv],
          !.events = @ \o s.events \o
             <<Event("RequestArm", At(s.t.task_points, i).id, Undefined)>>,
          !.ub = FirstUB(@, s.ub),
          !.i = i]
  ELSE [acc EXCEPT
          !.t = [s.t EXCEPT !.task_advance = c.adv],
          !.events = @ \o s.events,
          !.ub = FirstUB(@, s.ub),
          !.i = i]

\* The second half of the loop body: the advance past the active point.
\* s is what the checks of slot i left, c the answer of CheckReadyToAdvance;
\* the i of the result is the loop variable at the end of the body.
AdvanceActive(acc, s, c, i, n_task) ==
  IF c.ready
  THEN IF i + 1 < n_task
       THEN [acc EXCEPT
               !.t = SetActiveTaskPoint(
                       [s.t EXCEPT !.task_advance = [c.adv EXCEPT !.armed = FALSE]],
                       i + 1),
               !.full_update = TRUE,
               !.events = @ \o s.events \o
                  <<Event("ActiveAdvanced", At(s.t.task_points, i + 1).id, i + 1)>>,
               !.ub = FirstUB(@, s.ub),
               !.i = i + 1]
       ELSE [acc EXCEPT
               !.t = [s.t EXCEPT !.task_advance = [c.adv EXCEPT !.armed = FALSE]],
               !.events = @ \o s.events,
               !.ub = FirstUB(@, s.ub),
               !.i = i]
  ELSE IF ~NeedToArm(s.t.task_advance) /\ NeedToArm(c.adv)
  THEN [acc EXCEPT
          !.t = [s.t EXCEPT !.task_advance = c.adv],
          !.events = @ \o s.events \o
             <<Event("RequestArm", At(s.t.task_points, i).id, Undefined)>>,
          !.ub = FirstUB(@, s.ub),
          !.i = i]
  ELSE [acc EXCEPT
          !.t = [s.t EXCEPT !.task_advance = c.adv],
          !.events = @ \o s.events,
          !.ub = FirstUB(@, s.ub),
          !.i = i]

CheckActive(acc, s, i, n_task) ==
  IF i # s.t.active_task_point
  THEN [acc EXCEPT !.t = s.t, !.events = @ \o s.events,
                   !.ub = FirstUB(@, s.ub), !.i = i]
  ELSE AdvanceActive(acc, s,
                     CheckReadyToAdvance(s.t.task_advance, At(s.t.task_points, i),
                                         s.enter, s.exit),
                     i, n_task)

\* one iteration of the loop over [t_min, t_max]
LoopBody(acc, i, n_task, state, state_last) ==
  CheckActive(acc,
              CheckSlot(CheckOptionalStarts(acc.t, i, state, state_last),
                        i, state, state_last),
              i, n_task)

\* the loop that follows the active index: after an advance it goes on to
\* the new active point
RECURSIVE TransitionLoopFollowing(_, _, _, _, _, _)
TransitionLoopFollowing(acc, i, t_max, n_task, state, state_last) ==
  IF i > t_max THEN acc
  ELSE LET a == LoopBody(acc, i, n_task, state, state_last)
       IN TransitionLoopFollowing(a, i + 1,
                                  MinOf({n_task - 1, a.t.active_task_point}),
                                  n_task, state, state_last)

RECURSIVE TransitionLoop(_, _, _, _, _, _)
TransitionLoop(acc, i, t_max, n_task, state, state_last) ==
  IF i > t_max THEN acc
  ELSE LET a == LoopBody(acc, i, n_task, state, state_last)
       IN TransitionLoop(a, a.i + 1, t_max, n_task, state, state_last)

Out(t, ret, events, ub) == [t |-> t, ret |-> ret, events |-> events, ub |-> ub]

\* stats.need_to_arm and stats.task_finished after the loop
\* g: what reads through a dangling taskpoint_start/taskpoint_finish return
UpdateFinished(t, g) ==
  [t EXCEPT !.stats.need_to_arm = NeedToArm(t.task_advance),
            !.stats.task_finished =
               t.taskpoint_finish # Null /\
               ReadPoint(t, t.taskpoint_finish, g).has_entered]

\* the start statistics written only by the call that starts the task
UpdateStartedOnce(t, g) ==
  IF TaskStarted(t, FALSE, g) /\ ~HasStarted(t.stats.start)
  THEN [t EXCEPT
          !.stats.start =
             SetStarted(@, ReadPoint(t, t.taskpoint_start, g).exit_time, FALSE),
          !.stats.pev_based_advance_ready = FALSE]
  ELSE t

\* if (TaskStarted()) stats.start.SetStarted(taskpoint_start->GetExitedState())
UpdateStarted(t, g) ==
  IF TaskStarted(t, FALSE, g)
  THEN [t EXCEPT
          !.stats.start =
             SetStarted(@, ReadPoint(t, t.taskpoint_start, g).exit_time, FALSE),
          !.stats.pev_based_advance_ready = FALSE]
  ELSE t

\* the TaskStart and TaskFinish callbacks and the value returned; l is the
\* outcome of the loop, t the task after the statistics were updated
FinishedNotEarlier(l, t, last_started_time, last_finished) ==
  Out(t, l.full_update,
      l.events \o
      (IF t.stats.start.time >= last_started_time /\ t.stats.start.time # Undefined
       THEN <<Event("TaskStart", Null, Undefined)>> ELSE <<>>) \o
      (IF t.stats.task_finished /\ ~last_finished
       THEN <<Event("TaskFinish", Null, Undefined)>> ELSE <<>>),
      FirstUB(l.ub, IF t.taskpoint_finish = Dangling THEN "dangling" ELSE "none"))

FinishedRepeating(l, t, last_started_time, last_finished) ==
  Out(t, l.full_update,
      l.events \o
      (IF t.stats.start.time > last_started_time
       THEN <<Event("TaskStart", Null, Undefined)>> ELSE <<>>) \o
      (IF t.stats.task_finished
       THEN <<Event("TaskFinish", Null, Undefined)>> ELSE <<>>),
      FirstUB(l.ub, IF t.taskpoint_finish = Dangling THEN "dangling" ELSE "none"))

Finished(l, t, last_started_time, last_finished) ==
  Out(t, l.full_update,
      l.events \o
      (IF t.stats.start.time > last_started_time
       THEN <<Event("TaskStart", Null, Undefined)>> ELSE <<>>) \o
      (IF t.stats.task_finished /\ ~last_finished
       THEN <<Event("TaskFinish", Null, Undefined)>> ELSE <<>>),
      FirstUB(l.ub, IF t.taskpoint_finish = Dangling THEN "dangling" ELSE "none"))

AfterLoop(l, g, last_started_time, last_finished) ==
  Finished(l, UpdateStarted(UpdateFinished(l.t, g), g),
           last_started_time, last_finished)

\* the ScanActive of line 458 reads task_points[active_task_point] through
\* taskpoint_start
ScanActiveUB(t) ==
  IF t.taskpoint_start = Dangling THEN "dangling"
  ELSE IF t.active_task_point >= TaskSize(t) THEN "oob"
  ELSE "none"

\* CheckTransitions that also checks the point after the active one
CheckTransitionsLookingAhead(t, state, state_last, upd, g) ==
  IF t.taskpoint_start = Null THEN Out(t, FALSE, <<>>, "none")
  ELSE IF ~state.flying THEN Out(t, FALSE, <<>>, ScanActiveUB(t))
  ELSE IF TaskSize(t) = 0 THEN Out(t, FALSE, <<>>, ScanActiveUB(t))
  ELSE
    LET t_min == MaxOf({0, t.active_task_point - 1})
        t_max == MinOf({TaskSize(t) - 1, t.active_task_point + 1})
    IN AfterLoop(TransitionLoop([t |-> t, full_update |-> upd, events |-> <<>>,
                                 ub |-> ScanActiveUB(t), i |-> t_min],
                                t_min, t_max, TaskSize(t), state, state_last),
                 g, t.stats.start.time, t.stats.task_finished)

\* upd: whether a point's UpdateSampleNear/UpdateSampleFar reported a change
CheckTransitions(t, state, state_last, upd, g) ==
  IF t.taskpoint_start = Null THEN Out(t, FALSE, <<>>, "none")
  ELSE IF ~state.flying THEN Out(t, FALSE, <<>>, ScanActiveUB(t))
  ELSE IF TaskSize(t) = 0 THEN Out(t, FALSE, <<>>, ScanActiveUB(t))
  ELSE
    LET t_min == MaxOf({0, t.active_task_point - 1})
        t_max == MinOf({TaskSize(t) - 1, t.active_task_point})
    IN AfterLoop(TransitionLoop([t |-> t, full_update |-> upd, events |-> <<>>,
                                 ub |-> ScanActiveUB(t), i |-> t_min],
                                t_min, t_max, TaskSize(t), state, state_last),
                 g, t.stats.start.time, t.stats.task_finished)

\* ------------------------------------------------------------------ Reset
ResetPoints(points) == [i \in DOMAIN points |-> ResetPoint(points[i])]

\* Reset without stats.task_finished = false
ResetKeepingFinished(t) ==
  LET t1 == [t EXCEPT !.task_points = ResetPoints(@),
                      !.optional_start_points = ResetPoints(@)]
      t2 == [t1 EXCEPT !.stats.start = StartStatsReset(@),
                       !.task_advance = ResetAdvance(@)]
      t3 == SetActiveTaskPoint(t2, 0)
  IN UpdateStatsGeometry(t3)

ResetKeepingActive(t) ==
  LET t1 == [t EXCEPT !.task_points = ResetPoints(@),
                      !.optional_start_points = ResetPoints(@)]
      t2 == [t1 EXCEPT !.stats.task_finished = FALSE,
                       !.stats.start = StartStatsReset(@),
                       !.task_advance = ResetAdvance(@)]
  IN UpdateStatsGeometry(t2)

Reset(t) ==
  LET t1 == [t EXCEPT !.task_points = ResetPoints(@),
                      !.optional_start_points = ResetPoints(@)]
      t2 == [t1 EXCEPT !.stats.task_finished = FALSE,
                       !.stats.start = StartStatsReset(@),
                       !.task_advance = ResetAdvance(@)]
      t3 == SetActiveTaskPoint(t2, 0)
  IN UpdateStatsGeometry(t3)

\* ----------------------------------------------------------------- Commit
\* SetFactory: a change to anything but MIXED resets the task
SetFactory(t, the_factory) ==
  IF t.factory_mode = the_factory THEN t
  ELSE LET t1 == IF the_factory # "MIXED" THEN Reset(t) ELSE t
       IN [t1 EXCEPT !.factory_mode = the_factory]

SetOrderedTaskSettings(t, ob) == [t EXCEPT !.ordered_settings = ob]

RECURSIVE CommitShrink(_, _)
CommitShrink(acc, n) ==
  IF TaskSize(acc.t) > n
  THEN CommitShrink([t |-> Remove(acc.t, TaskSize(acc.t) - 1).t, modified |-> TRUE], n)
  ELSE acc

\* the task point loop of Commit replacing every slot it meets
RECURSIVE CommitPointsReplacingAll(_, _, _)
CommitPointsReplacingAll(acc, that, i) ==
  IF i >= Len(that.task_points) THEN acc
  ELSE IF i >= TaskSize(acc.t)
  THEN CommitPointsReplacingAll([t |-> TaskAppend(acc.t, At(that.task_points, i)).t,
                                 modified |-> TRUE], that, i + 1)
  ELSE CommitPointsReplacingAll([t |-> Replace(acc.t, At(that.task_points, i), i).t,
                                 modified |-> TRUE], that, i + 1)

RECURSIVE CommitPoints(_, _, _)
CommitPoints(acc, that, i) ==
  IF i >= Len(that.task_points) THEN acc
  ELSE IF i >= TaskSize(acc.t)
  THEN CommitPoints([t |-> TaskAppend(acc.t, At(that.task_points, i)).t,
                     modified |-> TRUE], that, i + 1)
  ELSE IF ~Equals(At(acc.t.task_points, i), At(that.task_points, i))
  THEN CommitPoints([t |-> Replace(acc.t, At(that.task_points, i), i).t,
                     modified |-> TRUE], that, i + 1)
  ELSE CommitPoints(acc, that, i + 1)

RECURSIVE CommitShrinkOptional(_, _)
CommitShrinkOptional(acc, n) ==
  IF Len(acc.t.optional_start_points) > n
  THEN CommitShrinkOptional(
         [t |-> RemoveOptionalStart(acc.t, Len(acc.t.optional_start_points) - 1).t,
          modified |-> TRUE], n)
  ELSE acc

RECURSIVE CommitOptional(_, _, _)
CommitOptional(acc, that, i) ==
  IF i >= Len(that.optional_start_points) THEN acc
  ELSE IF i >= Len(acc.t.optional_start_points)
  THEN CommitOptional([t |-> AppendOptionalStart(acc.t, At(that.optional_start_points, i)).t,
                       modified |-> TRUE], that, i + 1)
  ELSE IF ~Equals(At(acc.t.optional_start_points, i), At(that.optional_start_points, i))
  THEN CommitOptional(
         [t |-> ReplaceOptionalStart(acc.t, At(that.optional_start_points, i), i).t,
          modified |-> TRUE], that, i + 1)
  ELSE CommitOptional(acc, that, i + 1)

\* Commit without the loops that remove the surplus points
CommitGrowingOnly(t, that) ==
  LET t1 == SetOrderedTaskSettings(SetFactory(t, that.factory_mode),
                                   that.ordered_settings)
      a2 == CommitPoints([t |-> t1, modified |-> FALSE], that, 0)
      a4 == CommitOptional(a2, that, 0)
  IN Res(IF a4.modified THEN UpdateGeometry(a4.t) ELSE a4.t, a4.modified)

Commit(t, that) ==
  LET t1 == SetOrderedTaskSettings(SetFactory(t, that.factory_mode),
                                   that.ordered_settings)
      a1 == CommitShrink([t |-> t1, modified |-> FALSE], Len(that.task_points))
      a2 == CommitPoints(a1, that, 0)
      a3 == CommitShrinkOptional(a2, Len(that.optional_start_points))
      a4 == CommitOptional(a3, that, 0)
  IN Res(IF a4.modified THEN UpdateGeometry(a4.t) ELSE a4.t, a4.modified)

\* ------------------------------------------------------------------- PEV
Invalid == -1
MinutesPerDay == 1440

\* RoughTime::FromSinceMidnight: the minute of the day
FromSinceMidnight(seconds) == (seconds \div 60) % MinutesPerDay

\* RoughTime + RoughTimeDelta, wrapping at midnight
RoughAdd(rough, minutes) == (rough + minutes) % MinutesPerDay

UpdateAfterPEVFloor(t, state_time, bt_second) ==
  LET t1 == [t EXCEPT !.pev_received = FALSE] IN
  IF state_time < 0 THEN t1
  ELSE
    LET start == t.ordered_settings
        wait == (start.pev_start_wait_time \div 60) 
        new_start == IF start.pev_start_wait_time > 0
                     THEN RoughAdd(FromSinceMidnight(state_time), wait)
                     ELSE FromSinceMidnight(state_time)
    IN IF start.score_pev
       THEN [t1 EXCEPT !.stats.pev_based_advance_ready = TRUE,
                       !.ordered_settings.open_time_span =
                          [start |-> new_start, end |-> Invalid]]
       ELSE [t1 EXCEPT !.ordered_settings.open_time_span =
                          [start |-> new_start,
                           end |-> IF start.pev_start_window > 0
                                   THEN RoughAdd(new_start, start.pev_start_window \div 60)
                                   ELSE Invalid]]

UpdateAfterPEVKeepingLatch(t, state_time, bt_second) ==
  LET t1 == [t EXCEPT !.pev_received = FALSE] IN
  IF state_time < 0 THEN t
  ELSE
    LET start == t.ordered_settings
        wait == (start.pev_start_wait_time \div 60) + (IF bt_second > 0 THEN 1 ELSE 0)
        new_start == IF start.pev_start_wait_time > 0
                     THEN RoughAdd(FromSinceMidnight(state_time), wait)
                     ELSE FromSinceMidnight(state_time)
    IN IF start.score_pev
       THEN [t1 EXCEPT !.stats.pev_based_advance_ready = TRUE,
                       !.ordered_settings.open_time_span =
                          [start |-> new_start, end |-> Invalid]]
       ELSE [t1 EXCEPT !.ordered_settings.open_time_span =
                          [start |-> new_start,
                           end |-> IF start.pev_start_window > 0
                                   THEN RoughAdd(new_start, start.pev_start_window \div 60)
                                   ELSE Invalid]]

UpdateAfterPEV(t, state_time, bt_second) ==
  LET t1 == [t EXCEPT !.pev_received = FALSE] IN
  IF state_time < 0 THEN t1
  ELSE
    LET start == t.ordered_settings
        wait == (start.pev_start_wait_time \div 60) + (IF bt_second > 0 THEN 1 ELSE 0)
        new_start == IF start.pev_start_wait_time > 0
                     THEN RoughAdd(FromSinceMidnight(state_time), wait)
                     ELSE FromSinceMidnight(state_time)
    IN IF start.score_pev
       THEN [t1 EXCEPT !.stats.pev_based_advance_ready = TRUE,
                       !.ordered_settings.open_time_span =
                          [start |-> new_start, end |-> Invalid]]
       ELSE [t1 EXCEPT !.ordered_settings.open_time_span =
                          [start |-> new_start,
                           end |-> IF start.pev_start_window > 0
                                   THEN RoughAdd(new_start, start.pev_start_window \div 60)
                                   ELSE Invalid]]

\* RoughTimeSpan::HasBegun: a span without a start has always begun
HasBegun(span, now) ==
  span.start = Invalid \/ (now # Invalid /\ now >= span.start)

\* RoughTime{TimeStamp}: the minute of the day
RoughTimeOf(time) == IF time = Undefined THEN Invalid ELSE FromSinceMidnight(time)

\* StartPoint::GetScorePEV: the start reads the task's start constraints
GetScorePEV(t) == t.ordered_settings.score_pev

SetPEVLatchingFirst(t, bt) ==
  IF t.last_state_time = Undefined THEN Res(t, FALSE)
  ELSE IF t.taskpoint_start # Null /\ GetScorePEV(t) /\
          ~HasBegun(t.ordered_settings.open_time_span, RoughTimeOf(t.last_state_time))
  THEN Res([t EXCEPT !.pev_received = TRUE, !.pev_receive_time = bt], FALSE)
  ELSE Res([t EXCEPT !.pev_received = TRUE, !.pev_receive_time = bt], TRUE)

\* bt in seconds of the day
SetPEV(t, bt) ==
  IF t.last_state_time = Undefined THEN Res(t, FALSE)
  ELSE IF t.taskpoint_start # Null /\ GetScorePEV(t) /\
          ~HasBegun(t.ordered_settings.open_time_span, RoughTimeOf(t.last_state_time))
  THEN Res(t, FALSE)
  ELSE Res([t EXCEPT !.pev_received = TRUE, !.pev_receive_time = bt], TRUE)

\* --------------------------------------------------- ScanDistanceNominal
Shapes == {"CYLINDER", "LINE"}

\* an observation zone: its shape and, for a cylinder, its radius
Zones == [shape : Shapes, radius : 0..MaxDist]

GetCylinderRadiusOrMinusOne(oz) ==
  IF oz.shape = "CYLINDER" THEN oz.radius ELSE -1

\* ScanDistanceNominal that does not read the finish radius: the start
\* radius is subtracted twice
ScanDistanceNominalStale(zones, d) ==
  IF zones = <<>> THEN 0
  ELSE
    LET r1 == GetCylinderRadiusOrMinusOne(zones[1])
        d1 == IF r1 > 0 /\ r1 < d THEN d - r1 ELSE d
        d2 == IF r1 > 0 /\ r1 < d1 THEN d1 - r1 ELSE d1
    IN d2

\* zones: the observation zones of task_points in order; d: the nominal
\* distance start.ScanDistanceNominal() sums over the legs
ScanDistanceNominal(zones, d) ==
  IF zones = <<>> THEN 0
  ELSE
    LET r1 == GetCylinderRadiusOrMinusOne(zones[1])
        d1 == IF r1 > 0 /\ r1 < d THEN d - r1 ELSE d
        r2 == GetCylinderRadiusOrMinusOne(zones[Len(zones)])
        d2 == IF r2 > 0 /\ r2 < d1 THEN d1 - r2 ELSE d1
    IN d2

\* ------------------------------------------------------------------ state
VARIABLES
  task_points,            \* OrderedTask::task_points
  optional_start_points,  \* OrderedTask::optional_start_points
  active_task_point,      \* AbstractTask::active_task_point
  taskpoint_start,        \* cached pointer to the StartPoint
  taskpoint_finish,       \* cached pointer to the FinishPoint
  stats,                  \* TaskStats (start, task_finished, ...)
  task_advance,           \* TaskAdvance
  ordered_settings,       \* OrderedTaskSettings (start constraints)
  factory_mode,           \* TaskFactoryType
  force_full_update,
  pev_received,
  pev_receive_time,       \* the BrokenTime of the latched pilot event (its second)
  last_state_time,        \* the time of the last aircraft state the task has seen
  state_last,             \* the previous fix handed to CheckTransitions
  result,                 \* the last call: its name, arguments, return value, events
  crashed,                \* the process has died of undefined behaviour
  scan,                   \* an evaluation of a distance scan
  clone                   \* the task OrderedTask::Clone returned last

vars == <<task_points, optional_start_points, active_task_point, taskpoint_start,
          taskpoint_finish, stats, task_advance, ordered_settings, factory_mode,
          force_full_update, pev_received, pev_receive_time, last_state_time,
          state_last, result, crashed, scan, clone>>

Self ==
  [task_points |-> task_points,
   optional_start_points |-> optional_start_points,
   active_task_point |-> active_task_point,
   taskpoint_start |-> taskpoint_start,
   taskpoint_finish |-> taskpoint_finish,
   stats |-> stats,
   task_advance |-> task_advance,
   ordered_settings |-> ordered_settings,
   factory_mode |-> factory_mode,
   force_full_update |-> force_full_update,
   pev_received |-> pev_received,
   pev_receive_time |-> pev_receive_time,
   last_state_time |-> last_state_time]

Apply(t) ==
  /\ task_points' = t.task_points
  /\ optional_start_points' = t.optional_start_points
  /\ active_task_point' = t.active_task_point
  /\ taskpoint_start' = t.taskpoint_start
  /\ taskpoint_finish' = t.taskpoint_finish
  /\ stats' = t.stats
  /\ task_advance' = t.task_advance
  /\ ordered_settings' = t.ordered_settings
  /\ factory_mode' = t.factory_mode
  /\ force_full_update' = t.force_full_update
  /\ pev_received' = t.pev_received
  /\ pev_receive_time' = t.pev_receive_time
  /\ last_state_time' = t.last_state_time

TaskUnchanged ==
  UNCHANGED <<task_points, optional_start_points, active_task_point, taskpoint_start,
              taskpoint_finish, stats, task_advance, ordered_settings, factory_mode,
              force_full_update, pev_received, pev_receive_time, last_state_time>>

Call(op, tp, position, ret, events, ub) ==
  [op |-> op, tp |-> tp, position |-> position, ret |-> ret,
   events |-> events, ub |-> ub]

NoTemplate == [kind |-> "NONE", wp |-> Null]

Settings(score_pev) ==
  [score_pev |-> score_pev,
   pev_start_wait_time |-> 60,
   pev_start_window |-> 0,
   open_time_span |-> [start |-> Invalid, end |-> Invalid]]

\* the task as OrderedTask::OrderedTask leaves it
NewTask(mode, score_pev) ==
  [task_points |-> <<>>,
   optional_start_points |-> <<>>,
   active_task_point |-> 0,
   taskpoint_start |-> Null,
   taskpoint_finish |-> Null,
   stats |-> [start |-> [time |-> Undefined, advanced_by_pev |-> FALSE],
              task_finished |-> FALSE,
              pev_based_advance_ready |-> FALSE,
              need_to_arm |-> FALSE],
   task_advance |-> [mode |-> mode, armed |-> FALSE, request_armed |-> FALSE],
   ordered_settings |-> Settings(score_pev),
   factory_mode |-> "RACING",
   force_full_update |-> FALSE,
   pev_received |-> FALSE,
   pev_receive_time |-> Undefined,
   last_state_time |-> Undefined]

AdvanceModes == {"AUTO", "ARM"}

\* no nominal scan asked for
NoScan == [zones |-> <<>>, d |-> 0, result |-> Undefined, dmax |-> Undefined]

\* inside: the zones the aircraft was in at the fix before the first call
InitScan(t, inside, sc) ==
  /\ task_points = t.task_points
  /\ optional_start_points = t.optional_start_points
  /\ active_task_point = t.active_task_point
  /\ taskpoint_start = t.taskpoint_start
  /\ taskpoint_finish = t.taskpoint_finish
  /\ stats = t.stats
  /\ task_advance = t.task_advance
  /\ ordered_settings = t.ordered_settings
  /\ factory_mode = t.factory_mode
  /\ force_full_update = t.force_full_update
  /\ pev_received = t.pev_received
  /\ pev_receive_time = t.pev_receive_time
  /\ last_state_time = t.last_state_time
  /\ state_last = [inside |-> inside, time |-> 0]
  /\ result = Call("Init", NoTemplate, 0, FALSE, <<>>, "none")
  /\ crashed = FALSE
  /\ scan = sc
  /\ clone = NewTask("AUTO", FALSE)

InitWith(t, inside) == InitScan(t, inside, NoScan)

\* ---------------------------------------------------------------- actions
\* Each action is one call of a public operation.  Its inputs are drawn
\* from the sets it is given: point templates T, waypoints W, positions P,
\* tasks, fixes.  rec tells whether the call is recorded in result, for the
\* properties that speak of the last call.

\* result.tp is the point a call cloned into the task, if it accepted one
Env(rec, op, tp, position, ret) ==
  /\ result' = IF rec
               THEN Call(op, IF ret THEN tp ELSE NoTemplate, position, ret, <<>>, "none")
               ELSE result
  /\ UNCHANGED <<state_last, crashed, scan, clone>>

DoAppend(T, max, rec) ==
  /\ ~crashed
  /\ TaskSize(Self) < max
  /\ \E tp \in T :
       LET r == TaskAppend(Self, tp)
       IN Apply(Canon(r.t)) /\ Env(rec, "Append", tp, TaskSize(Self), r.ret)

DoInsert(T, P, max, rec) ==
  /\ ~crashed
  /\ TaskSize(Self) < max
  /\ \E tp \in T, position \in P :
       LET r == Insert(Self, tp, position)
       IN Apply(Canon(r.t)) /\ Env(rec, "Insert", tp, position, r.ret)

DoRemove(P, rec) ==
  /\ ~crashed
  /\ \E position \in P :
       LET r == Remove(Self, position)
       IN Apply(Canon(r.t)) /\ Env(rec, "Remove", NoTemplate, position, r.ret)

DoReplace(T, P, rec) ==
  /\ ~crashed
  /\ \E tp \in T, position \in P :
       LET r == Replace(Self, tp, position)
       IN Apply(Canon(r.t)) /\ Env(rec, "Replace", tp, position, r.ret)

DoRelocate(W, P, rec) ==
  /\ ~crashed
  /\ \E wp \in W, position \in P :
       LET r == Relocate(Self, position, wp)
       IN Apply(Canon(r.t)) /\
          Env(rec, "Relocate", [kind |-> "NONE", wp |-> wp], position, r.ret)

DoAppendOptionalStart(T, max, rec) ==
  /\ ~crashed
  /\ Len(optional_start_points) < max
  /\ \E tp \in T :
       LET r == AppendOptionalStart(Self, tp)
       IN Apply(Canon(r.t)) /\
          Env(rec, "AppendOptionalStart", tp, Len(optional_start_points), r.ret)

DoRemoveOptionalStart(P, rec) ==
  /\ ~crashed
  /\ \E position \in P :
       LET r == RemoveOptionalStart(Self, position)
       IN Apply(Canon(r.t)) /\ Env(rec, "RemoveOptionalStart", NoTemplate, position, r.ret)

DoReplaceOptionalStart(T, P, rec) ==
  /\ ~crashed
  /\ \E tp \in T, position \in P :
       LET r == ReplaceOptionalStart(Self, tp, position)
       IN Apply(Canon(r.t)) /\ Env(rec, "ReplaceOptionalStart", tp, position, r.ret)

DoRelocateOptionalStart(W, P, rec) ==
  /\ ~crashed
  /\ \E wp \in W, position \in P :
       LET r == RelocateOptionalStart(Self, position, wp)
       IN Apply(Canon(r.t)) /\
          Env(rec, "RelocateOptionalStart", [kind |-> "NONE", wp |-> wp], position, r.ret)

\* SelectOptionalStart is called on a task with a first point and with
\* pos < optional_start_points.size() (its assertion)
DoSelectOptionalStart(rec) ==
  /\ ~crashed
  /\ TaskSize(Self) > 0
  /\ \E pos \in 0..(Len(optional_start_points) - 1) :
       Apply(SelectOptionalStart(Self, pos)) /\
       Env(rec, "SelectOptionalStart", NoTemplate, pos, TRUE)

DoSetActiveTaskPoint(P, rec) ==
  /\ ~crashed
  /\ \E index \in P :
       Apply(SetActiveTaskPoint(Self, index)) /\
       Env(rec, "SetActiveTaskPoint", NoTemplate, index, TRUE)

DoUpdateGeometry(rec) ==
  /\ ~crashed
  /\ Apply(UpdateGeometry(Self))
  /\ Env(rec, "UpdateGeometry", NoTemplate, 0, TRUE)

DoRemoveAllPoints(rec) ==
  /\ ~crashed
  /\ Apply(Canon(RemoveAllPoints(Self)))
  /\ Env(rec, "RemoveAllPoints", NoTemplate, 0, TRUE)

DoReset(rec) ==
  /\ ~crashed
  /\ Apply(Reset(Self))
  /\ Env(rec, "Reset", NoTemplate, 0, TRUE)

\* TaskAdvance::SetArmed, the pilot's arm switch
DoSetArmed(rec) ==
  /\ ~crashed
  /\ \E b \in BOOLEAN :
       /\ Apply([Self EXCEPT !.task_advance.armed = b])
       /\ Env(rec, "SetArmed", NoTemplate, 0, b)

\* result.position is state.time, result.tp.wp is bt.second
DoUpdateAfterPEV(times, bts, rec) ==
  /\ ~crashed
  /\ \E state_time \in times, bt \in bts :
       /\ Apply(UpdateAfterPEV(Self, state_time, bt % 60))
       /\ Env(rec, "UpdateAfterPEV", [kind |-> "NONE", wp |-> bt % 60], state_time, TRUE)

\* result.position is bt, in seconds of the day
DoSetPEV(bts, rec) ==
  /\ ~crashed
  /\ \E bt \in bts :
       /\ Apply(SetPEV(Self, bt).t)
       /\ Env(rec, "SetPEV", NoTemplate, bt, SetPEV(Self, bt).ret)

\* the time of the last fix, which code outside this file keeps
DoSetLastStateTime(times, rec) ==
  /\ ~crashed
  /\ \E time \in times :
       /\ Apply([Self EXCEPT !.last_state_time = time])
       /\ Env(rec, "SetLastStateTime", NoTemplate, 0, TRUE)

\* result.position is the wait time
DoSetOrderedTaskSettings(waits, windows, rec) ==
  /\ ~crashed
  /\ \E wait \in waits, window \in windows, score_pev \in BOOLEAN :
       /\ Apply(SetOrderedTaskSettings(
                  Self, [ordered_settings EXCEPT !.pev_start_wait_time = wait,
                                                 !.pev_start_window = window,
                                                 !.score_pev = score_pev]))
       /\ Env(rec, "SetOrderedTaskSettings", NoTemplate, wait, TRUE)

\* the tasks handed to Commit: built with Append and AppendOptionalStart
WellFormed(s) ==
  \A i \in 2..Len(s) : IsPredecessorAllowed(s[i]) /\ IsSuccessorAllowed(s[i - 1])

PointSeqs(T, max) ==
  {s \in UNION {[1..n -> T] : n \in 0..max} : WellFormed(s)}

OptionalSeqs(T, max) == UNION {[1..n -> T] : n \in 0..max}

FactoryTypes == {"RACING", "MIXED"}

\* result.position of a Commit is the number of points and optional starts
\* the task had before the call
DoCommit(tasks, rec) ==
  /\ ~crashed
  /\ \E that \in tasks :
       LET r == Commit(Self, that)
       IN Apply(Canon(r.t)) /\
          Env(rec, "Commit", NoTemplate,
              TaskSize(Self) + Len(optional_start_points), r.ret)

Fixes(W, Ts) == [inside : SUBSET W, time : Ts, flying : BOOLEAN]

\* what a caller sees of a CheckTransitions call that returned r;
\* result.position is 1 for a fix with state.flying, 0 otherwise
Returned(r, state, rec) ==
  /\ Apply(r.t)
  /\ result' = IF rec
               THEN Call("CheckTransitions", NoTemplate,
                         IF state.flying THEN 1 ELSE 0, r.ret, r.events, r.ub)
               ELSE result

DoCheckTransitions(fixes, updates, rec) ==
  /\ ~crashed
  /\ \E state \in fixes, upd \in updates,
        g \in IF Dangling \in {taskpoint_start, taskpoint_finish}
              THEN Garbage ELSE {NoGarbage} :
       /\ state.time >= state_last.time
       /\ Returned(CheckTransitions(Self, state, state_last, upd, g), state, rec)
       /\ state_last' = [inside |-> state.inside, time |-> state.time]
       /\ UNCHANGED <<crashed, scan, clone>>

\* a call that runs into undefined behaviour may end the process
DoCheckTransitionsCrash(fixes, rec) ==
  /\ ~crashed
  /\ \E state \in fixes :
       /\ state.time >= state_last.time
       /\ CheckTransitions(Self, state, state_last, FALSE, NoGarbage).ub # "none"
  /\ crashed' = TRUE
  /\ result' = IF rec
               THEN Call("CheckTransitions", NoTemplate, 0, FALSE, <<>>, "crash")
               ELSE result
  /\ TaskUnchanged
  /\ UNCHANGED <<state_last, scan, clone>>

\* ------------------------------------------------- SpecEdit: task editing
\* The structural mutations, from the empty task.
Positions == 0..MaxPoints

OptionalPositions == 0..MaxOptional

\* points at waypoint 1, for the specifications that also fly
EditTemplates == [kind : Kinds, wp : {1}]

EditStartTemplates == [kind : {"START"}, wp : {1}]

NextEdit ==
  \/ DoAppend(PointTemplates, MaxPoints, FALSE)
  \/ DoInsert(PointTemplates, Positions, MaxPoints, FALSE)
  \/ DoRemove(Positions, FALSE)
  \/ DoReplace(PointTemplates, Positions, FALSE)
  \/ DoRelocate(Waypoints, Positions, FALSE)
  \/ DoAppendOptionalStart(StartTemplates, MaxOptional, FALSE)
  \/ DoRemoveOptionalStart(OptionalPositions, FALSE)
  \/ DoReplaceOptionalStart(StartTemplates, OptionalPositions, FALSE)
  \/ DoRelocateOptionalStart(Waypoints, OptionalPositions, FALSE)
  \/ DoSelectOptionalStart(FALSE)

InitEdit == InitWith(NewTask("AUTO", FALSE), {})

SpecEdit == InitEdit /\ [][NextEdit]_vars

\* ------------------------------------------- SpecPoints: the point list
\* Append, Insert, Remove and Replace with every template, from the empty
\* task, and the pilot's choice of the active point.
NextPoints ==
  \/ DoAppend(PointTemplates, MaxPoints, TRUE)
  \/ DoInsert(PointTemplates, Positions, MaxPoints, TRUE)
  \/ DoRemove(Positions, TRUE)
  \/ DoReplace(PointTemplates, Positions, TRUE)
  \/ DoSetActiveTaskPoint(Positions, TRUE)

SpecPoints == InitEdit /\ [][NextPoints]_vars

\* ------------------------------------- SpecAll: editing during a flight
\* The edits, Commit and Reset interleaved with fixes, from the empty task,
\* with all zones around waypoint 1.  The clock ticks with every fix, so a
\* run has at most MaxTime fixes; the aircraft may be in a zone before the
\* first of them.
CommitTasks ==
  [task_points : PointSeqs(EditTemplates, MaxEdited),
   optional_start_points : OptionalSeqs(EditStartTemplates, MaxOptional),
   factory_mode : {"RACING"},
   ordered_settings : {Settings(FALSE)}]

EditedPositions == 0..MaxEdited

NextFixes == Fixes({1}, {state_last.time + 1} \cap Times)

NextAll ==
  \/ DoAppend(EditTemplates, MaxEdited, FALSE)
  \/ DoInsert(EditTemplates, EditedPositions, MaxEdited, FALSE)
  \/ DoRemove(EditedPositions, FALSE)
  \/ DoReplace(EditTemplates, EditedPositions, FALSE)
  \/ DoAppendOptionalStart(EditStartTemplates, MaxOptional, FALSE)
  \/ DoSelectOptionalStart(FALSE)
  \/ DoSetActiveTaskPoint(EditedPositions, FALSE)
  \/ DoCommit(CommitTasks, FALSE)
  \/ DoReset(FALSE)
  \/ DoCheckTransitions(NextFixes, {FALSE}, FALSE)
  \/ DoCheckTransitionsCrash(NextFixes, FALSE)

InitAll == \E inside \in SUBSET {1} : InitWith(NewTask("AUTO", FALSE), inside)

SpecAll == InitAll /\ [][NextAll]_vars

\* ------------------------------------------------- SpecFlight: one flight
\* A valid task (a start, intermediates, a finish; geometry updated; the
\* waypoints are interchangeable, so the start is at waypoint 1) fed
\* with fixes of non-decreasing time, interleaved with Reset.
RECURSIVE BuildPoints(_, _, _)
BuildPoints(t, s, i) ==
  IF i > Len(s) THEN t ELSE BuildPoints(TaskAppend(t, s[i]).t, s, i + 1)

RECURSIVE BuildOptional(_, _, _)
BuildOptional(t, s, i) ==
  IF i > Len(s) THEN t ELSE BuildOptional(AppendOptionalStart(t, s[i]).t, s, i + 1)

BuildTask(mode, score_pev, points, optional) ==
  Canon(UpdateGeometry(
    BuildOptional(BuildPoints(NewTask(mode, score_pev), points, 1), optional, 1)))

ValidPointSeqs ==
  {s \in PointSeqs(PointTemplates, MaxPoints) :
     /\ Len(s) >= 2
     /\ s[1] = [kind |-> "START", wp |-> 1]
     /\ s[Len(s)].kind = "FINISH"
     /\ \A i \in 2..(Len(s) - 1) : s[i].kind = "INTERMEDIATE"}

InitFlight ==
  \E points \in ValidPointSeqs, optional \in OptionalSeqs(StartTemplates, MaxOptional) :
    InitWith(BuildTask("AUTO", FALSE, points, optional), {})

NextFlight ==
  \/ DoCheckTransitions(Fixes(Waypoints, Times), {FALSE}, TRUE)
  \/ DoReset(TRUE)

SpecFlight == InitFlight /\ [][NextFlight]_vars

\* ------------------------------------------- SpecClone: Clone and Commit
\* Clone without the copy of the active index
TaskCloneAtStart(t) ==
  UpdateGeometry(
    BuildOptional(
      BuildPoints([SetFactory(NewTask(t.task_advance.mode, FALSE), t.factory_mode)
                     EXCEPT !.ordered_settings = t.ordered_settings],
                  t.task_points, 1),
      t.optional_start_points, 1))

\* OrderedTask::Clone: a new task of the same factory and settings, to which
\* every point and optional start is appended (Append clones the point)
TaskClone(t) ==
  UpdateGeometry(
    [BuildOptional(
       BuildPoints([SetFactory(NewTask(t.task_advance.mode, FALSE), t.factory_mode)
                      EXCEPT !.ordered_settings = t.ordered_settings],
                   t.task_points, 1),
       t.optional_start_points, 1)
     EXCEPT !.active_task_point = t.active_task_point])

\* what every call on another object than the task leaves alone
CloneEnv(op, position, ret) ==
  /\ result' = Call(op, NoTemplate, position, ret, <<>>, "none")
  /\ TaskUnchanged
  /\ UNCHANGED <<state_last, crashed, scan>>

DoClone ==
  /\ ~crashed
  /\ clone' = Canon(TaskClone(Self))
  /\ CloneEnv("Clone", 0, TRUE)

\* the clone is edited, as the task editor does before it commits
DoCloneAppend(T, max) ==
  /\ TaskSize(clone) < max
  /\ \E tp \in T :
       /\ clone' = Canon(TaskAppend(clone, tp).t)
       /\ CloneEnv("Clone.Append", TaskSize(clone), TaskAppend(clone, tp).ret)

DoCloneRemove(P) ==
  \E position \in P :
    /\ clone' = Canon(Remove(clone, position).t)
    /\ CloneEnv("Clone.Remove", position, Remove(clone, position).ret)

\* a new, empty task is constructed in place of the task
DoNewTask ==
  /\ ~crashed
  /\ Apply(NewTask(task_advance.mode, FALSE))
  /\ Env(TRUE, "OrderedTask", NoTemplate, 0, TRUE)

\* Commit and Clone over tasks of up to MaxPoints points at one waypoint
\* and optional starts at any waypoint: the task is edited, cloned, edited
\* again or constructed anew, and the clone is committed to it.
NextCommit ==
  \/ DoAppend(EditTemplates, MaxPoints, TRUE)
  \/ DoRemove(Positions, TRUE)
  \/ DoReplace(EditTemplates, Positions, TRUE)
  \/ DoAppendOptionalStart(StartTemplates, MaxOptional, TRUE)
  \/ DoClone
  \/ DoNewTask
  \/ DoCommit({clone}, TRUE)

SpecCommit == InitEdit /\ [][NextCommit]_vars

\* Clone and the edits of the clone, over tasks of up to MaxEdited points
NextClone ==
  \/ DoAppend(EditTemplates, MaxEdited, TRUE)
  \/ DoRemove(EditedPositions, TRUE)
  \/ DoAppendOptionalStart(EditStartTemplates, MaxOptional, TRUE)
  \/ DoSetActiveTaskPoint(EditedPositions, TRUE)
  \/ DoClone
  \/ DoCloneAppend(EditTemplates, MaxEdited)
  \/ DoCloneRemove(EditedPositions)

SpecClone == InitEdit /\ [][NextClone]_vars

\* ------------------------------- SpecBounds: the calls that take a position
\* Every call is recorded, positions run past the end of both vectors.
NextBounds ==
  \/ DoAppend(EditTemplates, MaxEdited, TRUE)
  \/ DoInsert(EditTemplates, EditedPositions, MaxEdited, TRUE)
  \/ DoRemove(EditedPositions, TRUE)
  \/ DoReplace(EditTemplates, EditedPositions, TRUE)
  \/ DoRelocate(Waypoints, EditedPositions, TRUE)
  \/ DoAppendOptionalStart(EditStartTemplates, MaxOptional, TRUE)
  \/ DoRemoveOptionalStart(OptionalPositions, TRUE)
  \/ DoReplaceOptionalStart(EditStartTemplates, OptionalPositions, TRUE)
  \/ DoRelocateOptionalStart(Waypoints, OptionalPositions, TRUE)

SpecBounds == InitEdit /\ [][NextBounds]_vars

\* ------------------------------- SpecSelect: choosing an optional start
\* Up to MaxSelectable optional starts, every call recorded.
NextSelect ==
  \/ DoAppend(EditTemplates, MaxEdited, TRUE)
  \/ DoRemove(EditedPositions, TRUE)
  \/ DoAppendOptionalStart(EditStartTemplates, MaxSelectable, TRUE)
  \/ DoRemoveOptionalStart(0..MaxSelectable, TRUE)
  \/ DoSelectOptionalStart(TRUE)

SpecSelect == InitEdit /\ [][NextSelect]_vars

\* --------------------------------------------- SpecPEV: pilot events
\* Times are seconds of the day: 00:01:00, 12:03:20, 12:10:00.
FixTimes == {Undefined, 60, 43400, 43800}

\* pilot events at 12:03:00 and 12:03:20
PilotEventTimes == {43380, 43400}

\* seconds
WaitTimes == {0, 50, 300}

\* seconds
StartWindows == {0, 600}

InitPEV ==
  \E points \in {<<>>, <<[kind |-> "START", wp |-> 1], [kind |-> "FINISH", wp |-> 1]>>} :
    InitWith(BuildTask("AUTO", FALSE, points, <<>>), {})

NextPEV ==
  \/ DoSetOrderedTaskSettings(WaitTimes, StartWindows, TRUE)
  \/ DoSetLastStateTime(FixTimes, TRUE)
  \/ DoSetPEV(PilotEventTimes, TRUE)
  \/ DoUpdateAfterPEV(FixTimes, PilotEventTimes, TRUE)

SpecPEV == InitPEV /\ [][NextPEV]_vars

\* --------------------------- SpecPEVStart: starts after a pilot event
\* A valid task, scored by pilot event or not, is flown while pilot events
\* are processed: UpdateAfterPEV readies the start, CheckTransitions scores
\* it.
InitPEVStart ==
  \E points \in ValidPointSeqs, score_pev \in BOOLEAN :
    InitWith(BuildTask("AUTO", score_pev, points, <<>>), {})

NextPEVStart ==
  \/ DoCheckTransitions(Fixes(Waypoints, Times), {FALSE}, TRUE)
  \/ DoUpdateAfterPEV({60}, {43400}, TRUE)
  \/ DoReset(TRUE)

SpecPEVStart == InitPEVStart /\ [][NextPEVStart]_vars

\* ------------------------------ SpecAdvance: a flight with the arm switch
\* A valid task in either advance mode, with or without an optional start
\* at waypoint 2, fed with fixes while the pilot arms and disarms the
\* advance.  The clock stands still: the advance does not read it.
InitAdvance ==
  \E points \in ValidPointSeqs,
     optional \in {<<>>, <<[kind |-> "START", wp |-> 2]>>},
     mode \in AdvanceModes :
    InitWith(BuildTask(mode, FALSE, points, optional), {})

NextAdvance ==
  \/ DoCheckTransitions(Fixes(Waypoints, {0}), {FALSE}, TRUE)
  \/ DoSetArmed(TRUE)

SpecAdvance == InitAdvance /\ [][NextAdvance]_vars

\* ------------------------------- SpecShort: flights over unfinished tasks
\* A task that begins with a start and need not have a finish, down to the
\* start alone, with its geometry updated, fed with fixes while the active
\* point is set by hand.  The clock stands still.
InitShort ==
  \E points \in {s \in PointSeqs(PointTemplates, MaxPoints) :
                   Len(s) >= 1 /\ s[1] = [kind |-> "START", wp |-> 1]} :
    InitWith(BuildTask("AUTO", FALSE, points, <<>>), {})

NextShort ==
  \/ DoCheckTransitions(Fixes(Waypoints, {0}), {FALSE}, TRUE)
  \/ DoCheckTransitionsCrash(Fixes(Waypoints, {0}), TRUE)
  \/ DoSetActiveTaskPoint(Positions, TRUE)

SpecShort == InitShort /\ [][NextShort]_vars

\* ------------------------------------- SpecAAT: GetAATTaskPoint by index
\* Unsigned arithmetic is modulo 2^WordBits; the index and the vector size
\* are taken to have the same width.
WordBits == 6

Word == 2 ^ WordBits

\* What the call may do: ptr is the pointer returned, ub the undefined
\* behaviour met.  `TPindex > task_points.size() - 1` is evaluated in
\* unsigned arithmetic; an index that passes it is used to subscript the
\* vector.  An intermediate point of the model stands for an AST or an AAT
\* point, so either answer is possible for it.
GetAATTaskPoint(t, TPindex) ==
  IF TPindex > (TaskSize(t) - 1) % Word
  THEN {[ptr |-> Null, ub |-> "none"]}
  ELSE IF TPindex >= TaskSize(t)
  THEN {[ptr |-> p, ub |-> "oob"] : p \in {Null, Dangling}}
  ELSE IF At(t.task_points, TPindex).kind = "INTERMEDIATE"
  THEN {[ptr |-> p, ub |-> "none"] : p \in {Null, At(t.task_points, TPindex).id}}
  ELSE {[ptr |-> Null, ub |-> "none"]}

\* result.position is TPindex, result.ret tells whether a point was returned;
\* a read outside the vector may end the process
DoGetAATTaskPoint(indices) ==
  /\ ~crashed
  /\ \E TPindex \in indices :
       \E o \in GetAATTaskPoint(Self, TPindex), dies \in BOOLEAN :
         /\ dies => o.ub # "none"
         /\ crashed' = dies
         /\ result' = Call("GetAATTaskPoint", NoTemplate, TPindex,
                           o.ptr # Null, <<>>, o.ub)
  /\ TaskUnchanged
  /\ UNCHANGED <<state_last, scan, clone>>

NextAAT ==
  \/ DoAppend(PointTemplates, MaxPoints, TRUE)
  \/ DoRemove(Positions, TRUE)
  \/ DoGetAATTaskPoint(0..(Word - 1))

SpecAAT == InitEdit /\ [][NextAAT]_vars

\* ------------------------------------ SpecPower: next_power_of_two(i)
\* The loop of next_power_of_two, one test of `p < i` per step, on unsigned
\* values of WordBits bits.  scan holds the argument i, the local p and the
\* position: in the loop or returned.
InitPower ==
  \E i \in 0..(Word - 1) :
    InitScan(NewTask("AUTO", FALSE), {}, [i |-> i, p |-> 1, pc |-> "while"])

\* p < i: p <<= 1, in unsigned arithmetic
DoShift ==
  /\ scan.pc = "while"
  /\ scan.p < scan.i
  /\ scan' = [scan EXCEPT !.p = (scan.p * 2) % Word]
  /\ TaskUnchanged
  /\ UNCHANGED <<state_last, result, crashed, clone>>

\* p >= i: return p
DoReturn ==
  /\ scan.pc = "while"
  /\ ~(scan.p < scan.i)
  /\ scan' = [scan EXCEPT !.pc = "return"]
  /\ TaskUnchanged
  /\ UNCHANGED <<state_last, result, crashed, clone>>

NextPower == DoShift \/ DoReturn

SpecPower == InitPower /\ [][NextPower]_vars

\* the processor keeps executing the loop
SpecPowerFair == InitPower /\ [][NextPower]_vars /\ WF_vars(NextPower)

\* ------------------------------- SpecMin: reuse of the minimum-distance scan
\* The aircraft moves on a line through the active point's target: a location
\* is its distance to the target in metres, Invalid when it has no fix.  One
\* unit of the flat projection is taken as one metre.
DistanceIsSignificant(location, location_last) ==
  (location - location_last) * (location - location_last) > 1 * 1

\* the test that turns a scan into a full one, on the distances to the
\* active point cast to unsigned
ActiveDistanceChanged(last_distance, cur_distance) ==
  \/ last_distance < 2000
  \/ cur_distance < 2000
  \/ last_distance * 20 >= cur_distance * 21
  \/ cur_distance * 20 >= last_distance * 21

ScanIsFullAbove(full, location, last_min_location) ==
  IF /\ ~full
     /\ location # Invalid
     /\ last_min_location # Invalid
     /\ DistanceIsSignificant(location, last_min_location)
  THEN \/ last_min_location <= 2000
       \/ location <= 2000
       \/ last_min_location * 20 >= location * 21
       \/ location * 20 >= last_min_location * 21
  ELSE full

\* full as ScanDistanceMin has it when it decides whether to solve, for a
\* task with an active point
ScanIsFull(full, location, last_min_location) ==
  IF /\ ~full
     /\ location # Invalid
     /\ last_min_location # Invalid
     /\ DistanceIsSignificant(location, last_min_location)
  THEN ActiveDistanceChanged(last_min_location, location)
  ELSE full

MinScanDrifting(sc, location, full) ==
  [last_min_location |-> location,
   from |-> sc.last_min_location,
   location |-> location,
   full |-> full,
   solved |-> ScanIsFull(full, location, sc.last_min_location),
   drift |-> IF sc.solved THEN 0 ELSE MinOf({sc.drift + 1, MaxDrift})]

\* one call: solved tells whether RunDijsktraMin was called, from is
\* last_min_location at entry, drift counts the calls without a solve
\* before this one
MinScan(sc, location, full) ==
  [last_min_location |-> IF ScanIsFull(full, location, sc.last_min_location)
                         THEN location ELSE sc.last_min_location,
   from |-> sc.last_min_location,
   location |-> location,
   full |-> full,
   solved |-> ScanIsFull(full, location, sc.last_min_location),
   drift |-> IF sc.solved THEN 0 ELSE MinOf({sc.drift + 1, MaxDrift})]

MinLocations == {Invalid, 1999, 2000, 2050, 2100, 8500, 9500, 9524, 9800, 9900,
                 10000, 10001}

DoScanDistanceMin(locations) ==
  /\ ~crashed
  /\ \E location \in locations, full \in BOOLEAN :
       scan' = MinScan(scan, location, full)
  /\ result' = Call("ScanDistanceMin", NoTemplate, 0, TRUE, <<>>, "none")
  /\ TaskUnchanged
  /\ UNCHANGED <<state_last, crashed, clone>>

\* Append gives last_min_location the first point's location
InitMin ==
  \E location \in MinLocations :
    InitScan(BuildTask("AUTO", FALSE,
                       <<[kind |-> "START", wp |-> 1], [kind |-> "FINISH", wp |-> 1]>>,
                       <<>>),
             {},
             [last_min_location |-> location, from |-> location,
              location |-> location, full |-> TRUE, solved |-> TRUE, drift |-> 0])

NextMin == DoScanDistanceMin(MinLocations)

SpecMin == InitMin /\ [][NextMin]_vars

\* --------------------------------------- SpecNominal: the nominal scan
\* ScanDistanceNominal over tasks of up to MaxZones points: the zones and
\* the nominal distance are drawn, the scan computes the result.
ZoneSeqs == UNION {[1..n -> Zones] : n \in 0..MaxZones}

\* the task's zones or its nominal distance change (an edit, a relocation)
DoSetZones(Z) ==
  /\ \E zones \in Z, d \in 0..MaxDist :
       scan' = [zones |-> zones, d |-> d, result |-> Undefined, dmax |-> Undefined]
  /\ TaskUnchanged
  /\ UNCHANGED <<state_last, result, crashed, clone>>

DoScanDistanceNominal ==
  /\ scan' = [scan EXCEPT !.result = ScanDistanceNominal(scan.zones, scan.d)]
  /\ TaskUnchanged
  /\ UNCHANGED <<state_last, result, crashed, clone>>

InitNominal == InitWith(NewTask("AUTO", FALSE), {})

NextNominal ==
  \/ DoSetZones(ZoneSeqs)
  \/ DoScanDistanceNominal

SpecNominal == InitNominal /\ [][NextNominal]_vars

\* --------------------------------------- SpecScan: the distance scans
\* A scan returns what the first point's scan of the same name returns; d
\* stands for that value.  ub names undefined behaviour the call ran into.
Scanned(ret, ub) == [ret |-> ret, dmax |-> Undefined, ub |-> ub]

\* both paths end in task_points.front()->ScanDistanceMin(): no test for an
\* empty vector.  RunDijsktraMin returns before touching a point when the
\* task has fewer than 2 points.
ScanDistanceMin(zones, d, full) ==
  IF zones = <<>> THEN Scanned(Undefined, "front of empty vector")
  ELSE Scanned(d, "none")

ScanDistanceMax(zones, d) ==
  IF zones = <<>> THEN Scanned(0, "none") ELSE Scanned(d, "none")

ScanDistanceMaxTotal(zones, d) ==
  IF zones = <<>> THEN Scanned(0, "none") ELSE Scanned(d, "none")

\* ret is *dmin; *dmax is written only when force is set
ScanDistanceMinMax(zones, d, force) ==
  [ScanDistanceMin(zones, d, force)
   EXCEPT !.dmax = IF force THEN ScanDistanceMax(zones, d).ret ELSE Undefined]

ScanDistanceScored(zones, d) ==
  IF zones = <<>> THEN Scanned(0, "none") ELSE Scanned(d, "none")

ScanDistanceRemaining(zones, d) ==
  IF zones = <<>> THEN Scanned(0, "none") ELSE Scanned(d, "none")

ScanDistanceTravelled(zones, d) ==
  IF zones = <<>> THEN Scanned(0, "none") ELSE Scanned(d, "none")

ScanDistancePlanned(zones, d) ==
  IF zones = <<>> THEN Scanned(0, "none") ELSE Scanned(d, "none")

ScanOps == {"ScanDistanceMin", "ScanDistanceMax", "ScanDistanceMaxTotal",
            "ScanDistanceMinMax", "ScanDistanceNominal", "ScanDistanceScored",
            "ScanDistanceRemaining", "ScanDistanceTravelled",
            "ScanDistancePlanned"}

Scan(op, zones, d, force) ==
  CASE op = "ScanDistanceMin" -> ScanDistanceMin(zones, d, force)
    [] op = "ScanDistanceMax" -> ScanDistanceMax(zones, d)
    [] op = "ScanDistanceMaxTotal" -> ScanDistanceMaxTotal(zones, d)
    [] op = "ScanDistanceMinMax" -> ScanDistanceMinMax(zones, d, force)
    [] op = "ScanDistanceNominal" -> Scanned(ScanDistanceNominal(zones, d), "none")
    [] op = "ScanDistanceScored" -> ScanDistanceScored(zones, d)
    [] op = "ScanDistanceRemaining" -> ScanDistanceRemaining(zones, d)
    [] op = "ScanDistanceTravelled" -> ScanDistanceTravelled(zones, d)
    [] op = "ScanDistancePlanned" -> ScanDistancePlanned(zones, d)

\* what a call that read the front of an empty vector may hand back: any
\* distance, or nothing at all when the read kills the process
ScanOutcomes(r) ==
  IF r.ub = "none" THEN {[r EXCEPT !.ub = "none"]}
  ELSE {[r EXCEPT !.ret = v] : v \in (0..MaxDist) \cup {Undefined}}

\* one scan of the task whose zones and point-level distance are in scan;
\* result.position is 1 when the call forced a full scan, result.ret tells
\* whether the call returned
DoScan(ops) ==
  /\ ~crashed
  /\ \E op \in ops, force \in BOOLEAN :
       \E o \in ScanOutcomes(Scan(op, scan.zones, scan.d, force)) :
         /\ scan' = [scan EXCEPT !.result = o.ret, !.dmax = o.dmax]
         /\ crashed' = (o.ret = Undefined /\ o.ub # "none")
         /\ result' = Call(op, NoTemplate, IF force THEN 1 ELSE 0, ~crashed', <<>>, o.ub)
  /\ TaskUnchanged
  /\ UNCHANGED <<state_last, clone>>

\* the scans other than the nominal one do not look at the zones' sizes
WideZoneSeqs == {zs \in ZoneSeqs : \A i \in 1..Len(zs) : zs[i].radius = MaxDist}

NextScan ==
  \/ DoSetZones(WideZoneSeqs)
  \/ DoScan(ScanOps)

SpecScan == InitWith(NewTask("AUTO", FALSE), {}) /\ [][NextScan]_vars

\* ================================================================ claims
N == TaskSize(Self)

Flown == result.op = "CheckTransitions"

\* the points of both lists, by identity
PointIds == {AllPoints(Self)[i].id : i \in DOMAIN AllPoints(Self)}

PointOf(t, id) == Deref(t, id)

\* the points checked as starts: slot 0 and the optional starts
StartSlotIds(t) ==
  (IF TaskSize(t) > 0 THEN {At(t.task_points, 0).id} ELSE {}) \cup
  {t.optional_start_points[j].id : j \in DOMAIN t.optional_start_points}

\* ---------------------------------------------------------------- C1
\* C1: a CheckTransitions call on a valid task never lowers the active task
\* point index; only Reset() does.
C1_ActiveNeverDecreases ==
  [][result'.op = "CheckTransitions" => active_task_point' >= active_task_point]_vars

\* the task advanced from the start to its last point
C1_Witness == Flown /\ N >= 3 /\ active_task_point = N - 1

\* ---------------------------------------------------------------- C3
\* C3: whenever stats.start.HasStarted(), the point in slot 0 has has_exited.
C3_StartedImpliesExited ==
  HasStarted(stats.start) => (N > 0 /\ At(task_points, 0).has_exited)

\* ---------------------------------------------------------------- C4
\* C4: stats.task_finished implies that the last task point has has_entered.
C4_FinishedImpliesEntered ==
  stats.task_finished => (N > 0 /\ At(task_points, N - 1).has_entered)

\* the finish was entered and the task is finished
C4_Witness == Flown /\ stats.task_finished

\* ---------------------------------------------------------------- C5
\* C5: every task point and optional start point that has has_exited also
\* has has_entered.
C5_ExitedImpliesEntered ==
  \A id \in PointIds : PointOf(Self, id).has_exited => PointOf(Self, id).has_entered

C2_ActiveInRange ==
  /\ N >= 1 => (0 <= active_task_point /\ active_task_point < N)
  /\ N = 0 => active_task_point = 0

\* a fix took the task past its start: the active index is the last slot
C2_Witness ==
  N >= 2 /\ active_task_point = N - 1 /\ At(task_points, 0).has_exited

\* ---------------------------------------------------------------- C7
\* C7: a Start-kind point is only at position 0 and a Finish-kind point only
\* at position N-1, so the task holds at most one of each.
C7_StartFirstFinishLast ==
  \A i \in 0..(N - 1) :
    /\ At(task_points, i).kind = "START" => i = 0
    /\ At(task_points, i).kind = "FINISH" => i = N - 1

\* a task of start, intermediate and finish has just rejected a Replace
C7_Witness ==
  /\ N >= 3
  /\ At(task_points, 0).kind = "START"
  /\ At(task_points, N - 1).kind = "FINISH"
  /\ result.op = "Replace" /\ ~result.ret

\* ---------------------------------------------------------------- C8
\* what Clone copies and what a point carries besides its identity and links
Content(point) ==
  [kind |-> point.kind, wp |-> point.wp, has_entered |-> point.has_entered,
   has_exited |-> point.has_exited, exit_time |-> point.exit_time]

LinksConsistent(t, i) ==
  /\ At(t.task_points, i).prev =
       (IF i > 0 THEN At(t.task_points, i - 1).id ELSE Null)
  /\ At(t.task_points, i).next =
       (IF i + 1 < TaskSize(t) THEN At(t.task_points, i + 1).id ELSE Null)

\* C8: a successful Insert(p, k) with k < N puts a copy of p at k, shifts
\* the points k..N-1 to k+1..N in order, leaves 0..k-1 alone and makes the
\* neighbour links of the slots k-1, k and k+1 point to the adjacent slots.
C8_InsertShifts ==
  [][(result'.op = "Insert" /\ result'.ret /\ result'.position < N) =>
       LET k == result'.position
           p == result'.tp
           after == Self'
       IN /\ TaskSize(after) = N + 1
          /\ Content(At(after.task_points, k)) =
               [kind |-> p.kind, wp |-> p.wp, has_entered |-> FALSE,
                has_exited |-> FALSE, exit_time |-> Undefined]
          /\ \A i \in 0..(k - 1) :
               Content(At(after.task_points, i)) = Content(At(task_points, i))
          /\ \A i \in k..(N - 1) :
               Content(At(after.task_points, i + 1)) = Content(At(task_points, i))
          /\ \A i \in {k - 1, k, k + 1} \cap (0..N) : LinksConsistent(after, i)]_vars

\* an Insert between two points succeeded
C8_Witness ==
  /\ result.op = "Insert" /\ result.ret
  /\ result.position > 0 /\ result.position < N - 1
  /\ Content(At(task_points, result.position)).kind = result.tp.kind

\* ---------------------------------------------------------------- C9
\* C9: every task point's prev and next are the points in the adjacent slots
\* (null at the ends), every optional start point's prev is null and its
\* next is task_points[1] (null when N < 2).
C9_NeighboursConsistent ==
  /\ \A i \in 0..(N - 1) : LinksConsistent(Self, i)
  /\ \A j \in DOMAIN optional_start_points :
       /\ optional_start_points[j].prev = Null
       /\ optional_start_points[j].next =
            (IF N >= 2 THEN At(task_points, 1).id ELSE Null)

\* --------------------------------------------------------------- C10
\* a scan of a two-point task with a cylinder start and a cylinder finish
CylinderPair ==
  /\ scan.result # Undefined
  /\ Len(scan.zones) = 2
  /\ scan.zones[1].shape = "CYLINDER" /\ scan.zones[1].radius > 0
  /\ scan.zones[2].shape = "CYLINDER" /\ scan.zones[2].radius > 0

\* C10 as claimed: with R1 < D and R2 < D the scan returns D - R1 - R2.
C10_BothRadiiSubtracted ==
  (CylinderPair /\ scan.zones[1].radius < scan.d /\ scan.zones[2].radius < scan.d)
    => scan.result = scan.d - scan.zones[1].radius - scan.zones[2].radius

\* C10 amended: with R1 < D and R2 < D - R1 the scan returns D - R1 - R2;
\* with R1 < D and R2 >= D - R1 only the start radius is subtracted.
C10_RadiiSubtractedWhileLess ==
  (CylinderPair /\ scan.zones[1].radius < scan.d) =>
    scan.result = IF scan.zones[2].radius < scan.d - scan.zones[1].radius
                  THEN scan.d - scan.zones[1].radius - scan.zones[2].radius
                  ELSE scan.d - scan.zones[1].radius

\* both radii were subtracted, and they differ
C10_Witness ==
  /\ CylinderPair
  /\ scan.zones[1].radius # scan.zones[2].radius
  /\ scan.zones[2].radius < scan.d - scan.zones[1].radius
  /\ scan.result = scan.d - scan.zones[1].radius - scan.zones[2].radius


\* --------------------------------------------------------------- C11
\* a task without points and without optional starts
IsEmptyTask(t) == TaskSize(t) = 0 /\ Len(t.optional_start_points) = 0

\* C11: Commit of a clone onto an empty task returns true when the clone is
\* not empty, and the Commit of the same clone that follows it at once
\* returns false and leaves the points, the optional starts and the active
\* index as they are.
C11_CommitIdempotent ==
  [][result'.op = "Commit" =>
       /\ (IsEmptyTask(Self) /\ ~IsEmptyTask(clone)) => result'.ret
       /\ (result.op = "Commit" /\ result.position = 0) =>
            /\ ~result'.ret
            /\ task_points' = task_points
            /\ optional_start_points' = optional_start_points
            /\ active_task_point' = active_task_point]_vars

\* a clone of three points and an optional start was committed twice
C11_Witness ==
  /\ result.op = "Commit" /\ ~result.ret
  /\ N = 3 /\ Len(optional_start_points) = 1
  /\ Len(clone.task_points) = 3

\* --------------------------------------------------------------- C12
SameSlots(a, b) ==
  Len(a) = Len(b) /\ \A i \in DOMAIN a : Equals(a[i], b[i])

\* a start first, a finish last, intermediates between
IsValidTask(t) ==
  /\ TaskSize(t) >= 2
  /\ At(t.task_points, 0).kind = "START"
  /\ At(t.task_points, TaskSize(t) - 1).kind = "FINISH"
  /\ \A i \in 1..(TaskSize(t) - 2) : At(t.task_points, i).kind = "INTERMEDIATE"

\* C12: after Commit(other) the task has as many points and optional starts
\* as other, and every slot Equals the slot of other.
C12_CommitMatches ==
  [][result'.op = "Commit" =>
       /\ SameSlots(task_points', clone.task_points)
       /\ SameSlots(optional_start_points', clone.optional_start_points)]_vars

\* a Commit has shrunk a valid task of three points to one of two
C12_Witness ==
  /\ result.op = "Commit" /\ result.ret /\ result.position >= 3
  /\ N = 2 /\ IsValidTask(Self) /\ IsValidTask(clone)


\* --------------------------------------------------------------- C13
CloneEdits == {"Clone.Append", "Clone.Remove"}

C15_EmptyScansReturnZero ==
  [][(result'.op \in ScanOps /\ result' # result /\ scan.zones = <<>>)
       => /\ result'.ub = "none"
          /\ result'.ret
          /\ scan'.result = 0
          /\ scan'.dmax \in {0, Undefined}]_vars

\* --------------------------------------------------------------- C14
PositionOps == {"Insert", "Remove", "Replace", "Relocate", "RemoveOptionalStart",
                "ReplaceOptionalStart", "RelocateOptionalStart"}

OptionalStartOps == {"RemoveOptionalStart", "ReplaceOptionalStart",
                     "RelocateOptionalStart"}

\* the size a call's position is compared with, before the call
SizeFor(op) == IF op \in OptionalStartOps THEN Len(optional_start_points) ELSE N

\* C14: a call that takes a position returns false when the position is not
\* below the size of the vector it indexes.
C14_OutOfRangeReturnsFalse ==
  [][(result'.op \in PositionOps /\ result'.position >= SizeFor(result'.op))
       => ~result'.ret]_vars

\* C14 as the code has it: Insert is the exception, a position past the end
\* makes it append the point.
C14_OutOfRangeReturnsFalseButInsertAppends ==
  [][(result'.op \in PositionOps /\ result'.position >= SizeFor(result'.op))
       => IF result'.op # "Insert" THEN ~result'.ret
          ELSE IF result'.ret
          THEN /\ Len(task_points') = N + 1
               /\ SameSlots(SubSeq(task_points', 1, N), task_points)
               /\ task_points'[N + 1].kind = result'.tp.kind
               /\ task_points'[N + 1].wp = result'.tp.wp
          ELSE SameSlots(task_points', task_points)]_vars

C14_Witness ==
  /\ result.op = "Insert"
  /\ result.ret
  /\ result.position = 2
  /\ N = 2
  /\ task_points[2].kind = "FINISH"

\* --------------------------------------------------------------- C16
\* the objects in the slots of a vector
Ids(points) == [i \in 1..Len(points) |-> points[i].id]

\* C16: SelectOptionalStart(pos) swaps the start and optional start pos, and
\* every other optional start keeps its position.
C16_SelectSwaps ==
  [][result'.op = "SelectOptionalStart"
       => /\ task_points'[1].id = optional_start_points[result'.position + 1].id
          /\ Ids(optional_start_points') =
               [Ids(optional_start_points)
                EXCEPT ![result'.position + 1] = task_points[1].id]]_vars

\* C16 as the code has it: the former start goes to the end of the optional
\* starts, those behind pos move down by one.
C16_SelectMovesStartToEnd ==
  [][result'.op = "SelectOptionalStart"
       => /\ task_points'[1].id = optional_start_points[result'.position + 1].id
          /\ Ids(optional_start_points') =
               [i \in 1..Len(optional_start_points) |->
                  IF i <= result'.position THEN optional_start_points[i].id
                  ELSE IF i < Len(optional_start_points)
                  THEN optional_start_points[i + 1].id
                  ELSE task_points[1].id]
          /\ Ids(Tail(task_points')) = Ids(Tail(task_points))]_vars

C16_Witness ==
  /\ result.op = "SelectOptionalStart"
  /\ result.position = 1
  /\ Len(optional_start_points) = 3
  /\ N = 2

\* --------------------------------------------------------------- C17
Emitted(type) == \E i \in 1..Len(result.events) : result.events[i].type = type

\* TaskStarted() of the task
Started == TaskStarted(Self, FALSE, NoGarbage)

\* C17: a CheckTransitions call emits TaskStart exactly when TaskStarted()
\* goes from false to true, stats.start then holds the start's exit state,
\* and a call made with TaskStarted() true emits no TaskStart and leaves
\* stats.start alone.
C17_StartEmittedOnce ==
  [][result'.op = "CheckTransitions" =>
       /\ Emitted("TaskStart")' <=> (~Started /\ Started')
       /\ (~Started /\ Started') =>
            stats'.start.time = PointOf(Self', taskpoint_start').exit_time
       /\ Started => stats'.start = stats.start]_vars

\* C17 as the code has it: TaskStart goes with a later started time, which a
\* second exit of the start gives as well; stats.start changes only to the
\* exit state of a start that has exited.
C17_StartEmittedWhenLater ==
  [][result'.op = "CheckTransitions" =>
       /\ Emitted("TaskStart")' <=> stats'.start.time > stats.start.time
       /\ stats'.start # stats.start =>
            /\ Started'
            /\ stats'.start.time = PointOf(Self', taskpoint_start').exit_time]_vars

\* a start at the last fix
C17_Witness ==
  /\ Flown
  /\ Emitted("TaskStart")
  /\ Started
  /\ stats.start.time = MaxTime
  /\ At(task_points, 0).exit_time = MaxTime

\* --------------------------------------------------------------- C18
\* C18: a CheckTransitions call emits TaskFinish exactly when it takes
\* stats.task_finished from false to true; no call takes it back to false,
\* so without a Reset the event comes at most once.
C18_FinishEmittedOnce ==
  [][result'.op = "CheckTransitions" =>
       /\ Emitted("TaskFinish")' <=> (~stats.task_finished /\ stats'.task_finished)
       /\ stats.task_finished => stats'.task_finished]_vars

\* the finish was entered in the last call, after a start
C18_Witness ==
  /\ Flown
  /\ Emitted("TaskFinish")
  /\ stats.task_finished
  /\ Started
  /\ PointOf(Self, taskpoint_finish).has_entered

\* --------------------------------------------------------------- C19
\* the start is PEV-scored and its gate has not opened at the last fix
GateShut ==
  /\ taskpoint_start # Null
  /\ ordered_settings.score_pev
  /\ ordered_settings.open_time_span.start # Invalid
  /\ (last_state_time \div 60) % MinutesPerDay < ordered_settings.open_time_span.start

\* C19: SetPEV returns false and latches nothing when the time of the last
\* fix is undefined or the PEV-scored start's gate has not opened at it;
\* otherwise it returns true with pev_received set and pev_receive_time = bt.
C19_SetPEVLatchesUnlessGateShut ==
  [][result'.op = "SetPEV" =>
       IF last_state_time = Undefined \/ GateShut
       THEN /\ ~result'.ret
            /\ pev_received' = pev_received
            /\ pev_receive_time' = pev_receive_time
       ELSE /\ result'.ret
            /\ pev_received'
            /\ pev_receive_time' = result'.position]_vars

\* a pilot event refused at 12:03 because the gate opens later
C19_Witness ==
  /\ result.op = "SetPEV"
  /\ ~result.ret
  /\ last_state_time = 43400
  /\ GateShut
  /\ ~pev_received

\* --------------------------------------------------------------- C20
\* the call recorded in result' is UpdateAfterPEV with a defined time, made
\* without PEV scoring
UpdatedAfterPEV ==
  /\ result'.op = "UpdateAfterPEV"
  /\ result'.position >= 0
  /\ ~ordered_settings.score_pev

\* minute of the day of the call's state.time
MinuteOfDay == result'.position \div 60

\* the wait in whole minutes, one more when bt.second > 0
WaitMinutes ==
  (ordered_settings.pev_start_wait_time \div 60) +
  (IF result'.tp.wp > 0 THEN 1 ELSE 0)

\* C20: without PEV scoring UpdateAfterPEV sets open_time_span to
\* [s, s + window], s = minute of the day + wait in whole minutes, plus one
\* minute when bt.second > 0, for every wait and window, zero included.
C20_SpanFromWaitAndWindow ==
  [][UpdatedAfterPEV =>
       ordered_settings'.open_time_span =
         [start |-> MinuteOfDay + WaitMinutes,
          end |-> MinuteOfDay + WaitMinutes +
                  (ordered_settings.pev_start_window \div 60)]]_vars

\* C20 as the code has it: a zero wait adds nothing, not even the minute for
\* bt.second > 0, and a zero window leaves the span without an end.
C20_SpanFromPositiveWaitAndWindow ==
  [][UpdatedAfterPEV =>
       /\ ordered_settings'.open_time_span.start =
            IF ordered_settings.pev_start_wait_time > 0
            THEN MinuteOfDay + WaitMinutes ELSE MinuteOfDay
       /\ ordered_settings'.open_time_span.end =
            IF ordered_settings.pev_start_window > 0
            THEN ordered_settings'.open_time_span.start +
                 (ordered_settings.pev_start_window \div 60)
            ELSE Invalid]_vars

\* 12:03:20, wait 5 min, window 10 min: [12:09, 12:19]
C20_Witness ==
  /\ result.op = "UpdateAfterPEV"
  /\ result.position = 43400
  /\ result.tp.wp = 20
  /\ ~ordered_settings.score_pev
  /\ ordered_settings.pev_start_wait_time = 300
  /\ ordered_settings.pev_start_window = 600
  /\ ordered_settings.open_time_span = [start |-> 729, end |-> 739]

\* --------------------------------------------------------------- C21
\* C21: UpdateAfterPEV always clears pev_received; with PEV scoring and a
\* time that is not negative it sets open_time_span to a span with a start
\* and no end and sets pev_based_advance_ready; with a negative time it
\* changes nothing else.
C21_ScoredPEVOpensWithoutEnd ==
  [][result'.op = "UpdateAfterPEV" =>
       /\ ~pev_received'
       /\ (ordered_settings.score_pev /\ result'.position >= 0) =>
            /\ ordered_settings'.open_time_span.end = Invalid
            /\ ordered_settings'.open_time_span.start # Invalid
            /\ ordered_settings'.open_time_span.start >= result'.position \div 60
            /\ stats'.pev_based_advance_ready
       /\ result'.position < 0 =>
            /\ ordered_settings' = ordered_settings
            /\ stats' = stats
            /\ pev_receive_time' = pev_receive_time
            /\ UNCHANGED <<task_points, optional_start_points, active_task_point,
                           taskpoint_start, taskpoint_finish, task_advance,
                           factory_mode, force_full_update, last_state_time>>]_vars

\* a latched pilot event processed at 12:03:20 with PEV scoring, wait 5 min
C21_Witness ==
  /\ result.op = "UpdateAfterPEV"
  /\ result.position = 43400
  /\ ordered_settings.score_pev
  /\ ordered_settings.pev_start_wait_time = 300
  /\ ordered_settings.open_time_span = [start |-> 729, end |-> Invalid]
  /\ stats.pev_based_advance_ready
  /\ ~pev_received
  /\ pev_receive_time # Undefined

\* --------------------------------------------------------------- C22
\* C22: for a pilot event at state time t, bt being the broken time of t, and
\* a wait w > 0 in seconds, the span UpdateAfterPEV sets opens no earlier
\* than t + w, with and without PEV scoring.
C22_OpensAfterWait ==
  [][(/\ result'.op = "UpdateAfterPEV"
      /\ result'.position >= 0
      /\ result'.tp.wp = result'.position % 60
      /\ ordered_settings.pev_start_wait_time > 0)
       => ordered_settings'.open_time_span.start * 60 >=
            result'.position + ordered_settings.pev_start_wait_time]_vars

\* --------------------------------------------------------------- C23
\* neither distance is 5% or more above the other
WithinFivePercent(a, b) == a * 20 < b * 21 /\ b * 20 < a * 21

\* a call without full, with a location and a last_min_location
Unforced == ~scan'.full /\ scan'.location # Invalid /\ scan.last_min_location # Invalid

SquareDistance == (scan'.location - scan.last_min_location) *
                  (scan'.location - scan.last_min_location)

\* C23: a call without full skips the solver exactly when the squared
\* distance to last_min_location is at most 1, or both distances to the
\* active point exceed 2000 m and differ by less than 5% either way;
\* otherwise it solves and sets last_min_location to the location.
C23_SkipsAbove2000 ==
  [][Unforced =>
       /\ ~scan'.solved <=>
            \/ SquareDistance <= 1
            \/ /\ scan.last_min_location > 2000
               /\ scan'.location > 2000
               /\ WithinFivePercent(scan.last_min_location, scan'.location)
       /\ scan'.solved => scan'.last_min_location = scan'.location]_vars

\* C23 as the code has it: distances of exactly 2000 m skip as well.
C23_SkipsFrom2000 ==
  [][Unforced =>
       /\ ~scan'.solved <=>
            \/ SquareDistance <= 1
            \/ /\ scan.last_min_location >= 2000
               /\ scan'.location >= 2000
               /\ WithinFivePercent(scan.last_min_location, scan'.location)
       /\ scan'.solved => scan'.last_min_location = scan'.location]_vars

\* a skipped call from exactly 2000 m
C23_Witness ==
  /\ result.op = "ScanDistanceMin"
  /\ ~scan.full
  /\ ~scan.solved
  /\ scan.from = 2000
  /\ scan.location = 2050

\* --------------------------------------------------------------- C24
\* C24: a call that skips the solver leaves last_min_location alone; after a
\* full solve at 10000 m the calls without full skip while the distance is
\* within 5% of 10000 m and solve once it is not, however many skipped calls
\* came before.
C24_DriftMeasuredFromLastSolve ==
  [][scan' # scan =>
       /\ ~scan'.solved => scan'.last_min_location = scan.last_min_location
       /\ (Unforced /\ scan.last_min_location = 10000) =>
            (scan'.solved <=> ~WithinFivePercent(10000, scan'.location))]_vars

\* solved at 9500 m after two skipped calls that had moved less than 5% each
C24_Witness ==
  /\ result.op = "ScanDistanceMin"
  /\ scan.solved
  /\ ~scan.full
  /\ scan.from = 10000
  /\ scan.location = 9500
  /\ scan.drift = MaxDrift

\* --------------------------------------------------------------- C26
Unflown(points) ==
  \A i \in 1..Len(points) : ~points[i].has_entered /\ ~points[i].has_exited

StructuralOps == {"Append", "Insert", "Remove", "Replace"}

\* the call recorded in result' returned true and changed the points
Mutated ==
  /\ result'.op \in StructuralOps
  /\ result'.ret
  /\ ~(Ids(task_points') = Ids(task_points) /\ SameSlots(task_points', task_points))

\* C27: a structural mutation that succeeds and changes the task leaves
\* force_full_update set.
C27_MutationForcesFullUpdate ==
  [][Mutated => force_full_update']_vars

\* what the code does instead: the four mutations leave force_full_update as
\* it was; SetActiveTaskPoint sets it when it changes the index.
MutationKeepsFullUpdate ==
  [][/\ result'.op \in StructuralOps => force_full_update' = force_full_update
     /\ (result'.op = "SetActiveTaskPoint" /\ active_task_point' # active_task_point)
          => force_full_update']_vars

\* a point inserted into a task whose flag is still clear
C27_Witness ==
  /\ result.op = "Insert"
  /\ result.ret
  /\ N = 3
  /\ ~force_full_update

\* --------------------------------------------------------------- C28
\* C28: Remove(p) with p below the active index a returns true, leaves N-1
\* points, makes a-1 the active index, which is the slot the active point
\* moved to, keeps the other points in order, and links the slots p-1 and p
\* to their new neighbours.
C28_RemoveBeforeActive ==
  [][(result'.op = "Remove" /\ result'.position < active_task_point) =>
       LET p == result'.position
           a == active_task_point
           after == Self'
       IN /\ result'.ret
          /\ TaskSize(after) = N - 1
          /\ after.active_task_point = a - 1
          /\ At(Remove(Self, p).t.task_points, a - 1).id = At(task_points, a).id
          /\ \A i \in 0..(N - 2) :
               Content(At(after.task_points, i)) =
                 Content(At(task_points, IF i < p THEN i ELSE i + 1))
          /\ p > 0 => LinksConsistent(after, p - 1)
          /\ LinksConsistent(after, p)]_vars

\* the middle point of three was removed while the last was active
C28_Witness ==
  /\ result.op = "Remove"
  /\ result.ret
  /\ result.position = 1
  /\ N = 2
  /\ active_task_point = 1
  /\ LinksConsistent(Self, 0)
  /\ LinksConsistent(Self, 1)

\* --------------------------------------------------------------- C29
\* the call recorded in result' scored an exit of the start point
StartExitScored ==
  /\ result'.op = "CheckTransitions"
  /\ \E k \in DOMAIN result'.events :
       /\ result'.events[k].type = "ExitTransition"
       /\ result'.events[k].point = At(task_points, 0).id

\* C29: after CheckTransitions scored a start, stats.start.advanced_by_pev
\* tells whether pev_based_advance_ready was set when the exit was scored.
C29_AdvancedByPEVRecorded ==
  [][StartExitScored =>
       (stats'.start.advanced_by_pev <=> stats.pev_based_advance_ready)]_vars

\* what the code does instead: a scored start is never marked
StartNeverMarked ==
  [][StartExitScored =>
       /\ HasStarted(stats'.start)
       /\ ~stats'.start.advanced_by_pev
       /\ ~stats'.pev_based_advance_ready]_vars

\* a start scored in a task that is scored by pilot event
C29_Witness ==
  /\ result.op = "CheckTransitions"
  /\ ordered_settings.score_pev
  /\ HasStarted(stats.start)
  /\ At(task_points, 0).has_exited
  /\ ~stats.start.advanced_by_pev

\* --------------------------------------------------------------- C30
\* the slots a CheckTransitions call checks, from the active index at entry
Window ==
  MaxOf({0, active_task_point - 1})..MinOf({N - 1, active_task_point})

SameSamples(p, q) ==
  p.has_entered = q.has_entered /\ p.has_exited = q.has_exited

\* C30: a CheckTransitions call reports enter and exit transitions only of
\* the points in slots max(0, a-1)..min(N-1, a), a the active index at
\* entry, and of the optional starts when slot 0 is among them; has_entered
\* and has_exited of every other point are as before the call.
C30_OnlyWindowChecked ==
  [][result'.op = "CheckTransitions" =>
       /\ TaskSize(Self') = N
       /\ \A i \in (0..(N - 1)) \ Window :
            SameSamples(At(task_points', i), At(task_points, i))
       /\ 0 \notin Window =>
            /\ Len(optional_start_points') = Len(optional_start_points)
            /\ \A j \in DOMAIN optional_start_points :
                 SameSamples(optional_start_points'[j], optional_start_points[j])
       /\ \A k \in DOMAIN result'.events :
            result'.events[k].type \in {"EnterTransition", "ExitTransition"} =>
              result'.events[k].point \in
                {At(task_points, i).id : i \in Window} \cup
                (IF 0 \in Window
                 THEN {optional_start_points[j].id : j \in DOMAIN optional_start_points}
                 ELSE {})]_vars

\* the task of three points advanced past its middle point: the finish is
\* active and not yet entered, the start is outside the slots checked
C30_Witness ==
  /\ result.op = "CheckTransitions"
  /\ N = 3
  /\ active_task_point = 2
  /\ At(task_points, 0).has_exited
  /\ At(task_points, 1).has_entered
  /\ ~At(task_points, 2).has_entered

\* --------------------------------------------------------------- C31
\* the points whose transitions count for the active slot: the slot itself
\* and, for slot 0, the optional starts
ActiveIds ==
  {At(task_points, active_task_point).id} \cup
  (IF active_task_point = 0
   THEN {optional_start_points[j].id : j \in DOMAIN optional_start_points}
   ELSE {})

\* the call recorded in result' found the active point ready to advance:
\* a start was left, another point entered, with the advance armed where
\* the mode asks for it
ReadyToAdvance ==
  /\ result'.op = "CheckTransitions"
  /\ task_advance.mode = "AUTO" \/ task_advance.armed
  /\ \E k \in DOMAIN result'.events :
       /\ result'.events[k].type =
            (IF At(task_points, active_task_point).kind = "START"
             THEN "ExitTransition" ELSE "EnterTransition")
       /\ result'.events[k].point \in ActiveIds

Advances == {k \in DOMAIN result.events : result.events[k].type = "ActiveAdvanced"}

\* C31: a CheckTransitions call that finds the active point i ready to
\* advance disarms the advance; below the last point it makes i+1 active,
\* emits ActiveAdvanced(task_points[i+1], i+1) and returns true; at the last
\* point it leaves the active index and emits no ActiveAdvanced.
C31_ReadyAdvances ==
  [][ReadyToAdvance =>
       /\ ~task_advance'.armed
       /\ IF active_task_point + 1 < N
          THEN /\ active_task_point' = active_task_point + 1
               /\ result'.ret
               /\ \E k \in Advances' :
                    result'.events[k] =
                      Event("ActiveAdvanced",
                            At(task_points', active_task_point + 1).id,
                            active_task_point + 1)
          ELSE /\ active_task_point' = active_task_point
               /\ Advances' = {}]_vars

\* an armed advance took the task from its start to the next point
C31_Witness ==
  /\ result.op = "CheckTransitions"
  /\ task_advance.mode = "ARM"
  /\ ~task_advance.armed
  /\ active_task_point = 1
  /\ Advances # {}
  /\ result.ret

\* the finish was entered as the active point: nothing further to advance to
C31_WitnessLast ==
  /\ result.op = "CheckTransitions"
  /\ active_task_point = N - 1
  /\ At(task_points, N - 1).has_entered
  /\ Advances = {}

\* --------------------------------------------------------------- C32
\* The places of a call's events in the order the claim gives: the optional
\* starts in list order, then the slots in index order, each with its enter
\* before its exit and the ActiveAdvanced it triggered after both; then
\* TaskStart, then TaskFinish.  before and after are the task around the call.
UnitPlace(u, type) == 3 * u + (IF type = "EnterTransition" THEN 0 ELSE 1)

Places(e, before, after) ==
  LET L == Len(before.optional_start_points)
      n == TaskSize(before)
  IN IF e.type \in {"EnterTransition", "ExitTransition"}
     THEN {UnitPlace(j, e.type) :
             j \in {j \in 1..L : before.optional_start_points[j].id = e.point}}
          \cup
          {UnitPlace(L + 1 + i, e.type) :
             i \in {i \in 0..(n - 1) :
                      \/ At(before.task_points, i).id = e.point
                      \/ At(after.task_points, i).id = e.point}}
     ELSE IF e.type = "ActiveAdvanced" THEN {3 * (L + e.index) + 2}
     ELSE IF e.type = "TaskStart" THEN {3 * (L + n + 1)}
     ELSE IF e.type = "TaskFinish" THEN {3 * (L + n + 1) + 1}
     ELSE {}

\* every event from the k-th on can take a place above last, in order
RECURSIVE InOrder(_, _, _, _, _)
InOrder(events, k, last, before, after) ==
  IF k > Len(events) THEN TRUE
  ELSE LET free == {p \in Places(events[k], before, after) : p > last}
       IN free # {} /\ InOrder(events, k + 1, MinOf(free), before, after)

\* C32: the events of one CheckTransitions call come in ascending order of
\* the points (optional starts in list order before slot 0, enter before
\* exit), each ActiveAdvanced after a transition of the point that
\* triggered it, TaskStart and then TaskFinish after all of them.
C32_EventsInOrder ==
  [][result'.op = "CheckTransitions" =>
       /\ InOrder(result'.events, 1, -1, Self, Self')
       /\ \A k \in Advances' :
            \E h \in 1..(k - 1) :
              /\ result'.events[h].type \in {"EnterTransition", "ExitTransition"}
              /\ result'.events[h].point =
                   At(task_points', result'.events[k].index - 1).id]_vars

\* one call left the start, advanced and started the task
C32_Witness ==
  /\ result.op = "CheckTransitions"
  /\ Len(result.events) >= 3
  /\ result.events[1].type = "ExitTransition"
  /\ Advances # {}
  /\ Emitted("TaskStart")

\* --------------------------------------------------------------- C33
\* C33: Remove(position) with position < N lowers the active index by one
\* exactly when it is above position, or is the last slot and not 0;
\* otherwise, and so whenever the removed point lies after the active one,
\* the active index stays.
C33_RemoveAdjustsActive ==
  [][(result'.op = "Remove" /\ result'.position < N) =>
       LET position == result'.position
           a == active_task_point
       IN /\ result'.ret
          /\ active_task_point' =
               (IF a > position \/ (a > 0 /\ a = N - 1) THEN a - 1 ELSE a)
          /\ position > a => active_task_point' = a]_vars

\* the last of three points was removed and the middle one is active
C33_Witness ==
  /\ result.op = "Remove"
  /\ result.ret
  /\ result.position = 2
  /\ N = 2
  /\ active_task_point = 1

\* --------------------------------------------------------------- C34
\* C34: a CheckTransitions call made with a start point and a flying
\* aircraft that returns with TaskStarted() true leaves
\* stats.pev_based_advance_ready false, also when UpdateAfterPEV set it
\* after the start.
C34_StartedClearsPEVReady ==
  [][(/\ result'.op = "CheckTransitions"
      /\ result'.position = 1
      /\ taskpoint_start # Null
      /\ Started') => ~stats'.pev_based_advance_ready]_vars

\* a flying fix that scored nothing was checked on a started task that is
\* scored by pilot event
C34_Witness ==
  /\ result.op = "CheckTransitions"
  /\ result.position = 1
  /\ result.events = <<>>
  /\ ordered_settings.score_pev
  /\ Started
  /\ ~stats.pev_based_advance_ready

\* --------------------------------------------------------------- C35
\* C35: a CheckTransitions call raises the active index by at most one and
\* emits at most one ActiveAdvanced; the point it advanced to is not checked
\* in the same call.
C35_OneAdvancePerCall ==
  [][result'.op = "CheckTransitions" =>
       /\ active_task_point' <= active_task_point + 1
       /\ Cardinality(Advances') <= 1
       /\ active_task_point' = active_task_point + 1 =>
            /\ SameSamples(At(task_points', active_task_point'),
                           At(task_points, active_task_point'))
            /\ \A k \in DOMAIN result'.events :
                 result'.events[k].type \in {"EnterTransition", "ExitTransition"} =>
                   result'.events[k].point # At(task_points, active_task_point').id]_vars

\* the fix that left the start lay in the zone of the next point, which
\* became active without being entered
C35_Witness ==
  /\ result.op = "CheckTransitions"
  /\ N = 3
  /\ active_task_point = 1
  /\ Cardinality(Advances) = 1
  /\ At(task_points, 1).wp \in state_last.inside
  /\ ~At(task_points, 1).has_entered

\* --------------------------------------------------------------- C36
\* C36: taskpoint_start is null or the point in slot 0, taskpoint_finish is
\* null or the point in the last slot, and no CheckTransitions call has gone
\* through a pointer to a destroyed point.
C36_CachedEndsCurrent ==
  /\ taskpoint_start \in
       {Null} \cup (IF N > 0 THEN {At(task_points, 0).id} ELSE {})
  /\ taskpoint_finish \in
       {Null} \cup (IF N > 0 THEN {At(task_points, N - 1).id} ELSE {})
  /\ ~crashed

\* --------------------------------------------------------------- C37
\* C37: no CheckTransitions call on a task with at least one point reads
\* task_points at an index outside 0..N-1.
C37_ReadsInRange ==
  [][(result'.op = "CheckTransitions" /\ N >= 1) => result'.ub # "oob"]_vars

\* --------------------------------------------------------------- C38
RejectingOps ==
  {"Append", "Insert", "Replace", "Remove", "AppendOptionalStart",
   "RemoveOptionalStart", "ReplaceOptionalStart", "RelocateOptionalStart"}

\* C38: a mutation that returns false leaves the task points, the optional
\* starts, all neighbour links and the active index as they were.
C38_RejectedChangesNothing ==
  [][(result'.op \in RejectingOps /\ ~result'.ret) =>
       /\ task_points' = task_points
       /\ optional_start_points' = optional_start_points
       /\ active_task_point' = active_task_point]_vars

\* a Replace was refused on a task of two points with an optional start
C38_Witness ==
  /\ result.op = "Replace"
  /\ ~result.ret
  /\ result.position < N
  /\ N = 2
  /\ Len(optional_start_points) = 1

\* --------------------------------------------------------------- C39
\* C39: GetAATTaskPoint(index) returns null for every index >= N, the empty
\* task included, and reads no element outside 0..N-1.
C39_NullBeyondEnd ==
  [][result'.op = "GetAATTaskPoint" =>
       /\ result'.ub = "none"
       /\ result'.position >= N => ~result'.ret]_vars

\* what holds of the code: the same for every task that has a point
NullBeyondEndOfNonEmpty ==
  [][(result'.op = "GetAATTaskPoint" /\ N >= 1) =>
       /\ result'.ub = "none"
       /\ result'.position >= N => ~result'.ret]_vars

\* --------------------------------------------------------------- C40
IsPowerOfTwo(p) == \E k \in 0..(WordBits - 1) : p = 2 ^ k

\* C40: next_power_of_two(i) returns for every unsigned i, and returns the
\* smallest power of two that is >= i.
C40_ReturnsNextPower ==
  <>(/\ scan.pc = "return"
     /\ IsPowerOfTwo(scan.p)
     /\ scan.p >= scan.i
     /\ \A q \in 1..(scan.p - 1) : IsPowerOfTwo(q) => q < scan.i)

\* what holds of the code: a call that returns has the smallest power of
\* two >= i, and every argument up to 2^(WordBits-1) returns
ReturnedIsNextPower ==
  scan.pc = "return" =>
    /\ IsPowerOfTwo(scan.p)
    /\ scan.p >= scan.i
    /\ \A q \in 1..(scan.p - 1) : IsPowerOfTwo(q) => q < scan.i

SmallArgumentsReturn ==
  scan.i <= 2 ^ (WordBits - 1) ~> scan.pc = "return"

====
